---- MODULE Spec2Model ----
(***************************************************************************)
(* SmartCalendar: the local (Dexie) calendar store with its undo log, the  *)
(* conflict / free-slot queries, time scoring and schedule adjustment.     *)
(*                                                                         *)
(* An Event is a function from the keys it has to their values, so that an *)
(* optional field is a key outside its DOMAIN.  A local timestamp string   *)
(* 'YYYY-MM-DDTHH:MM:SS' is the pair <<day, minute of day>>, compared      *)
(* lexicographically as the store compares strings; a Date is the number   *)
(* of minutes since local midnight of day 0.                               *)
(***************************************************************************)
EXTENDS Integers, Sequences, FiniteSets, TLC

VARIABLES
    events,           \* db.events: event id -> Event
    undoLogs,         \* db.undoLogs: UndoLog rows in insertion order
    lastChangeSetId,  \* DexieCalendar.lastChangeSetId
    uuidCount,        \* number of uuidv4() values drawn so far
    last,             \* the last store call: arguments, result, state before it
    prev,             \* the store call before the last one
    undone,           \* the changeset ids undo has applied so far (history)
    out,              \* the last tool call (query, score, proposal) and its result
    userPersona,      \* chrome.storage.local userPersona: Null or Some(persona)
    driftLock,        \* the detectDrift call whose promise driftLock holds (0: resolved)
    calls,            \* the persona calls made so far, each with its position
    clock,            \* the number of timestamps new Date() has given
    driftCount,       \* keyword -> drifting observations since the last adoption
    serialPersona,    \* the persona had the detectDrift calls run one after another
    isProcessing,     \* service worker: the processing guard
    conversationMessages, \* service worker: the conversation history
    requests,         \* the handleChatRequest calls made so far, each with its position
    messages,         \* runToolUseLoop: the messages array
    iteration,        \* runToolUseLoop: iteration
    pending,          \* runToolUseLoop: the tool_use blocks still to execute (Null: no response in hand)
    toolResults,      \* runToolUseLoop: toolResults of the response in hand
    loopResult,       \* runToolUseLoop: Null while it runs, then what it returned or threw
    callback          \* the executeTool callback in flight (Null: none)

personaVars == <<userPersona, driftLock, calls, clock, driftCount, serialPersona>>

guardVars == <<isProcessing, conversationMessages, requests>>

loopVars == <<messages, iteration, pending, toolResults, loopResult>>

hostVars == <<guardVars, loopVars, callback>>

vars == <<events, undoLogs, lastChangeSetId, uuidCount, last, prev, undone, out, personaVars,
          hostVars>>

\* ------------------------------------------------------------------ bounds
MaxUuid == 6

\* ------------------------------------------------------------- data model
Category == {"dax-web", "dax-sl", "etc", "meeting", "ai", "general"}

EventIds == {"e1", "e2"}

\* lastChangeSetId before any mutation
NullChangeSet == 0

\* Date <-> local ISO string
MinutesPerDay == 1440

toLocalISO(date) == <<date \div MinutesPerDay, date % MinutesPerDay>>

NewDate(iso) == iso[1] * MinutesPerDay + iso[2]

\* string comparison of two local ISO strings
StrLE(a, b) == a[1] < b[1] \/ (a[1] = b[1] /\ a[2] <= b[2])

At(day, hh, mm) == <<day, hh * 60 + mm>>

\* `before` of a snapshot: null, or the event as it was
Null == <<>>

Some(e) == <<e>>

\* ---------------------------------------------------- Dexie tables (tx)
\* A transaction works on a copy of both tables; `failed` is set by the
\* first storage call that rejects and every later call is skipped.  Only
\* writes are made to reject: a rejected read aborts the same way, with
\* nothing written before it.
TxBegin == [events |-> events, undoLogs |-> undoLogs, failed |-> FALSE]

EventsAdd(tx, ev, fault) ==
    IF tx.failed THEN tx
    ELSE IF fault \/ ev.id \in DOMAIN tx.events
         THEN [tx EXCEPT !.failed = TRUE]
         ELSE [tx EXCEPT !.events = (ev.id :> ev) @@ tx.events]

EventsUpdate(tx, eventId, fields, fault) ==
    IF tx.failed THEN tx
    ELSE IF fault THEN [tx EXCEPT !.failed = TRUE]
    ELSE IF eventId \notin DOMAIN tx.events THEN tx
    ELSE [tx EXCEPT !.events = (eventId :> (fields @@ tx.events[eventId])) @@ tx.events]

EventsDelete(tx, eventId, fault) ==
    IF tx.failed THEN tx
    ELSE IF fault THEN [tx EXCEPT !.failed = TRUE]
    ELSE [tx EXCEPT !.events =
              [i \in DOMAIN tx.events \ {eventId} |-> tx.events[i]]]

UndoLogsAdd(tx, log, fault) ==
    IF tx.failed THEN tx
    ELSE IF fault THEN [tx EXCEPT !.failed = TRUE]
    ELSE [tx EXCEPT !.undoLogs = Append(tx.undoLogs, log)]

\* db.transaction('rw', ...): all writes of the body persist, or none
TransactionNoRollback(tx) == tx

Transaction(tx) ==
    IF tx.failed
    THEN [events |-> events, undoLogs |-> undoLogs, failed |-> TRUE]
    ELSE tx

recordUndo(undoId, changeSetId, snapshots) ==
    [undoId |-> undoId, changeSetId |-> changeSetId, snapshots |-> snapshots]

\* --------------------------------------------------------- store inputs
NoId == ""

T0 == At(0, 10, 0)

T1 == At(0, 11, 0)

makeEvent(id, title) ==
    [id |-> id, title |-> title, start |-> T0, end |-> T1,
     category |-> "general", tags |-> {}, is_movable |-> TRUE, priority |-> 3]

CreateInputs ==
    { makeEvent("e1", "A"),
      [description |-> "d"] @@ makeEvent("e2", "A"),
      makeEvent(NoId, "A") }

Patches ==
    { [description |-> "x"],
      [id |-> "e2", title |-> "B"],
      [category |-> "bogus"],
      [category |-> "meeting", priority |-> 1] }

\* which storage call of the transaction rejects (0: none)
Faults == 0..2

\* --------------------------------------------------------------- history
Pre == [events |-> events, undoLogs |-> undoLogs, lastChangeSetId |-> lastChangeSetId]

Call(op, id, arg, fault, ret, lcs) ==
    [op |-> op, id |-> id, arg |-> arg, fault |-> fault, ret |-> ret,
     lcs |-> lcs, pre |-> Pre]

NoCall ==
    [op |-> "none", id |-> NoId, arg |-> NullChangeSet, fault |-> 0, ret |-> "none",
     lcs |-> NullChangeSet,
     pre |-> [events |-> <<>>, undoLogs |-> <<>>, lastChangeSetId |-> NullChangeSet]]

\* no persona stored, no persona call made
NoPersona ==
    /\ userPersona = Null
    /\ driftLock = 0
    /\ calls = <<>>
    /\ clock = 0
    /\ driftCount = <<>>
    /\ serialPersona = Null

\* the service worker idle: no request
NoGuard ==
    /\ isProcessing = FALSE
    /\ conversationMessages = <<>>
    /\ requests = <<>>

\* no tool-use loop running
NoLoop ==
    /\ messages = <<>>
    /\ iteration = 0
    /\ pending = Null
    /\ toolResults = <<>>
    /\ loopResult = Null

NoHost == NoGuard /\ NoLoop /\ callback = Null

\* ------------------------------------------------------------------ Init
Init ==
    /\ events = <<>>
    /\ undoLogs = <<>>
    /\ lastChangeSetId = NullChangeSet
    /\ uuidCount = 0
    /\ last = NoCall
    /\ prev = NoCall
    /\ undone = {}
    /\ out = [op |-> "none"]
    /\ NoPersona
    /\ NoHost

\* ------------------------------------------------- DexieCalendar methods
\* this.lastChangeSetId = changeSetId, reached only by a mutation that applied
setLastChangeSetIdAlways(applied, changeSetId) == changeSetId

setLastChangeSetId(applied, changeSetId) ==
    IF applied THEN changeSetId ELSE lastChangeSetId

createEvent(event, gen, fault) ==
    LET id == IF event.id = NoId THEN gen ELSE event.id
        newEvent == [event EXCEPT !.id = id]
        changeSetId == uuidCount + 1
        undoLog == recordUndo(uuidCount + 2, changeSetId,
                              <<[event_id |-> id, before |-> Null]>>)
        tx == Transaction(
                 UndoLogsAdd(EventsAdd(TxBegin, newEvent, fault = 1),
                             undoLog, fault = 2))
    IN  /\ uuidCount + 2 <= MaxUuid
        /\ events' = tx.events
        /\ undoLogs' = tx.undoLogs
        /\ uuidCount' = uuidCount + 2
        /\ lastChangeSetId' = setLastChangeSetId(~tx.failed, changeSetId)
        /\ prev' = last
        /\ last' = Call("create", id, NullChangeSet, fault,
                        IF tx.failed THEN "throw" ELSE "event", lastChangeSetId')
        /\ UNCHANGED <<undone, out, personaVars, guardVars, loopVars>>

CreateEvent ==
    \E event \in CreateInputs, gen \in EventIds, fault \in Faults :
        /\ createEvent(event, gen, fault)
        /\ UNCHANGED callback

\* the patch without `id`, an invalid category replaced by the stored one;
\* patch values are strings, numbers and booleans as the tool layer passes them
updateFields(existing, changes) ==
    [k \in DOMAIN changes \ {"id"} |->
        IF k = "category"
        THEN (IF changes[k] \in Category THEN changes[k] ELSE existing.category)
        ELSE changes[k]]

updateEvent(eventId, changes, fault) ==
    LET changeSetId == uuidCount + 1
        found == eventId \in DOMAIN events
        existing == events[eventId]
        beforeSnapshot == existing
        tx1 == EventsUpdate(TxBegin, eventId, updateFields(existing, changes), fault = 1)
        undoLog == recordUndo(uuidCount + 2, changeSetId,
                              <<[event_id |-> eventId, before |-> Some(beforeSnapshot)]>>)
        tx == IF found THEN Transaction(UndoLogsAdd(tx1, undoLog, fault = 2))
              ELSE Transaction(TxBegin)
        updated == found /\ ~tx.failed
    IN  /\ uuidCount + 2 <= MaxUuid
        /\ events' = tx.events
        /\ undoLogs' = tx.undoLogs
        /\ uuidCount' = IF found /\ ~tx1.failed THEN uuidCount + 2 ELSE uuidCount + 1
        /\ lastChangeSetId' = setLastChangeSetId(updated, changeSetId)
        /\ prev' = last
        /\ last' = Call("update", eventId, NullChangeSet, fault,
                        IF tx.failed THEN "throw"
                        ELSE IF updated THEN "event" ELSE "undefined",
                        lastChangeSetId')
        /\ UNCHANGED <<undone, out, personaVars, guardVars, loopVars>>

UpdateEvent ==
    \E eventId \in EventIds, changes \in Patches, fault \in Faults :
        /\ (eventId \notin DOMAIN events => fault = 0)
        /\ updateEvent(eventId, changes, fault)
        /\ UNCHANGED callback

deleteEvent(eventId, fault) ==
    LET changeSetId == uuidCount + 1
        found == eventId \in DOMAIN events
        beforeSnapshot == events[eventId]
        tx1 == EventsDelete(TxBegin, eventId, fault = 1)
        undoLog == recordUndo(uuidCount + 2, changeSetId,
                              <<[event_id |-> eventId, before |-> Some(beforeSnapshot)]>>)
        tx == IF found THEN Transaction(UndoLogsAdd(tx1, undoLog, fault = 2))
              ELSE Transaction(TxBegin)
        deleted == found /\ ~tx.failed
    IN  /\ uuidCount + 2 <= MaxUuid
        /\ events' = tx.events
        /\ undoLogs' = tx.undoLogs
        /\ uuidCount' = IF found /\ ~tx1.failed THEN uuidCount + 2 ELSE uuidCount + 1
        /\ lastChangeSetId' = setLastChangeSetId(deleted, changeSetId)
        /\ prev' = last
        /\ last' = Call("delete", eventId, NullChangeSet, fault,
                        IF tx.failed THEN "throw"
                        ELSE IF deleted THEN "true" ELSE "false",
                        lastChangeSetId')
        /\ UNCHANGED <<undone, out, personaVars, hostVars>>

DeleteEvent ==
    \E eventId \in EventIds, fault \in Faults :
        /\ (eventId \notin DOMAIN events => fault = 0)
        /\ deleteEvent(eventId, fault)

undoSnapshotKeepsCreated(tx, snapshot, fault) ==
    LET eventId == snapshot.event_id
        before == snapshot.before
        existing == eventId \in DOMAIN tx.events
    IN  IF tx.failed \/ before = Null \/ ~existing THEN tx
        ELSE EventsUpdate(tx, eventId,
                          [k \in DOMAIN before[1] \ {"id"} |-> before[1][k]],
                          fault = 1)

undoSnapshotDeletesExisting(tx, snapshot, fault) ==
    LET eventId == snapshot.event_id
        before == snapshot.before
        existing == eventId \in DOMAIN tx.events
    IN  IF tx.failed THEN tx
        ELSE IF before = Null \/ existing
        THEN (IF existing THEN EventsDelete(tx, eventId, fault = 1) ELSE tx)
        ELSE EventsAdd(tx, before[1], fault = 1)

\* one snapshot of undo(): fault = 1 makes its write reject
undoSnapshot(tx, snapshot, fault) ==
    LET eventId == snapshot.event_id
        before == snapshot.before
        existing == eventId \in DOMAIN tx.events
    IN  IF tx.failed THEN tx
        ELSE IF before = Null
        THEN (IF existing THEN EventsDelete(tx, eventId, fault = 1) ELSE tx)
        ELSE IF ~existing
        THEN EventsAdd(tx, before[1], fault = 1)
        ELSE EventsUpdate(tx, eventId,
                          [k \in DOMAIN before[1] \ {"id"} |-> before[1][k]],
                          fault = 1)

RECURSIVE undoSnapshots(_, _, _)
undoSnapshots(tx, snapshots, fault) ==
    IF snapshots = <<>> THEN tx
    ELSE undoSnapshots(undoSnapshot(tx, Head(snapshots), fault),
                       Tail(snapshots), fault - 1)

\* the snapshots of all logs of a changeset, in log order
RECURSIVE allSnapshots(_)
allSnapshots(logs) ==
    IF logs = <<>> THEN <<>>
    ELSE Head(logs).snapshots \o allSnapshots(Tail(logs))

undo(changeSetId, fault) ==
    LET logs == SelectSeq(undoLogs, LAMBDA l : l.changeSetId = changeSetId)
        tx == IF Len(logs) = 0 THEN Transaction(TxBegin)
              ELSE Transaction(undoSnapshots(TxBegin, allSnapshots(logs), fault))
    IN  /\ events' = tx.events
        /\ undoLogs' = tx.undoLogs
        /\ prev' = last
        /\ last' = Call("undo", NoId, changeSetId, fault,
                        IF tx.failed THEN "throw"
                        ELSE IF Len(logs) = 0 THEN "false" ELSE "true",
                        lastChangeSetId)
           @@ [again |-> changeSetId \in undone]
        /\ undone' = IF Len(logs) = 0 \/ tx.failed THEN undone
                     ELSE undone \cup {changeSetId}
        /\ UNCHANGED <<lastChangeSetId, uuidCount, out, personaVars, hostVars>>

\* the changeset ids of the log, and one that was never issued
ChangeSetArgs ==
    {undoLogs[i].changeSetId : i \in DOMAIN undoLogs} \cup {uuidCount + 1}

Undo ==
    \E changeSetId \in ChangeSetArgs, fault \in 0..1 :
        undo(changeSetId, fault)

\* ------------------------------------------------------- DexieCalendar.getEvents
IdOrder == <<"e1", "e2", "e3", "e4">>

IdRank(id) == CHOOSE i \in DOMAIN IdOrder : IdOrder[i] = id

\* order of the `start` index: by start string, then by primary key
StartIndexBefore(a, b) ==
    \/ ~StrLE(b.start, a.start)
    \/ (a.start = b.start /\ IdRank(a.id) <= IdRank(b.id))

RECURSIVE sortByStart(_)
sortByStart(evs) ==
    IF evs = {} THEN <<>>
    ELSE LET first == CHOOSE a \in evs : \A b \in evs : StartIndexBefore(a, b)
         IN  <<first>> \o sortByStart(evs \ {first})

\* getEvents(startDate, endDate) as its callers here use it: without the
\* optional category and tags filters
getEvents(startDate, endDate) ==
    sortByStart({events[i] : i \in
        {j \in DOMAIN events : /\ StrLE(events[j].start, endDate)
                               /\ StrLE(startDate, events[j].end)}})

\* ------------------------------------------------------------ analysis tools
overlapsOrTouches(event, newStart, newEnd) ==
    NewDate(event.start) <= newEnd /\ NewDate(event.end) >= newStart

\* (A.start < B.end) AND (A.end > B.start)
overlaps(event, newStart, newEnd) ==
    NewDate(event.start) < newEnd /\ NewDate(event.end) > newStart

checkConflicts(start, end) ==
    LET newStart == NewDate(start)
        newEnd == NewDate(end)
        windowStart == newStart - MinutesPerDay
        windowEnd == newEnd + MinutesPerDay
        allEvents == getEvents(toLocalISO(windowStart), toLocalISO(windowEnd))
    IN  SelectSeq(allEvents, LAMBDA event : overlaps(event, newStart, newEnd))

\* --------------------------------------------------------------- query tools
DEFAULT_WORK_HOURS == <<<<9, 0>>, <<18, 0>>>>

\* 'HH:MM' is the pair of its two numbers; the result is [hour, minute],
\* or no result when the function throws
parseTime(timeStr) ==
    IF timeStr[1] < 0 \/ timeStr[1] > 23 \/ timeStr[2] < 0 \/ timeStr[2] > 59
    THEN Null
    ELSE Some([hour |-> timeStr[1], minute |-> timeStr[2]])

\* 'YYYY-MM-DD' is the day number; the result is local midnight
parseDate(dateStr) == dateStr * MinutesPerDay

setHours(date, hour, min) ==
    (date \div MinutesPerDay) * MinutesPerDay + hour * 60 + min

\* the sweep of getFreeSlots over the fetched events
RECURSIVE sweepSlots(_, _, _, _)
sweepSlots(evs, currentTime, durationMinutes, freeSlots) ==
    IF evs = <<>> THEN [currentTime |-> currentTime, freeSlots |-> freeSlots]
    ELSE LET evStart == NewDate(Head(evs).start)
             evEnd == NewDate(Head(evs).end)
             slots == IF evStart > currentTime
                         /\ evStart - currentTime >= durationMinutes
                      THEN Append(freeSlots,
                                  [start |-> toLocalISO(currentTime),
                                   end |-> toLocalISO(evStart)])
                      ELSE freeSlots
         IN  sweepSlots(Tail(evs),
                        IF evEnd > currentTime THEN evEnd ELSE currentTime,
                        durationMinutes, slots)

\* threw: a time of the range does not parse, and nothing is returned
getFreeSlots(date, durationMinutes, timeRange) ==
    LET range == IF timeRange = Null THEN DEFAULT_WORK_HOURS ELSE timeRange[1]
        startT == parseTime(range[1])
        endT == parseTime(range[2])
        targetDate == parseDate(date)
        dayStart == setHours(targetDate, startT[1].hour, startT[1].minute)
        dayEnd == setHours(targetDate, endT[1].hour, endT[1].minute)
        dayStartISO == toLocalISO(dayStart)
        dayEndISO == toLocalISO(dayEnd)
        swept == sweepSlots(getEvents(dayStartISO, dayEndISO), dayStart,
                            durationMinutes, <<>>)
    IN  IF startT = Null \/ endT = Null THEN [threw |-> TRUE, slots |-> <<>>]
        ELSE IF swept.currentTime < dayEnd
                /\ dayEnd - swept.currentTime >= durationMinutes
        THEN [threw |-> FALSE,
              slots |-> Append(swept.freeSlots,
                               [start |-> toLocalISO(swept.currentTime),
                                end |-> dayEndISO])]
        ELSE [threw |-> FALSE, slots |-> swept.freeSlots]

\* ------------------------------------------------------ recommendation tools
Max(a, b) == IF a >= b THEN a ELSE b

Min(a, b) == IF a <= b THEN a ELSE b

getHours(dt) == (dt % MinutesPerDay) \div 60

getMinutes(dt) == dt % 60

\* 'HH:MM' -> minutes of day
hhmmToMinutes(hhmm) == hhmm[1] * 60 + hhmm[2]

\* Math.round(30 * confidence), the confidence in hundredths
roundPenalty(confidence) == (30 * confidence + 50) \div 100

defaultTimeScore(dt) ==
    LET hour == getHours(dt)
    IN  IF hour >= 10 /\ hour <= 11 THEN 100
        ELSE IF hour >= 14 /\ hour <= 15 THEN 95
        ELSE IF hour >= 9 /\ hour <= 12 THEN 80
        ELSE IF hour >= 13 /\ hour <= 17 THEN 70
        ELSE 50

\* the first routine with confidence >= 0.3 whose buffered span holds mins
RECURSIVE routinePenalty(_, _, _)
routinePenalty(routines, mins, routineBuffer) ==
    IF routines = <<>> THEN 0
    ELSE LET r == Head(routines)
         IN  IF r.confidence < 30
             THEN routinePenalty(Tail(routines), mins, routineBuffer)
             ELSE IF mins >= hhmmToMinutes(r.typicalStart) - routineBuffer
                     /\ mins < hhmmToMinutes(r.typicalEnd) + routineBuffer
             THEN roundPenalty(r.confidence)
             ELSE routinePenalty(Tail(routines), mins, routineBuffer)

styleAdjustment(schedulingStyle, hour, workStart, workEnd) ==
    IF schedulingStyle = "conservative"
    THEN (IF hour >= 10 /\ hour <= 11 THEN 15 ELSE 0)
         + (IF hour >= 14 /\ hour <= 15 THEN 10 ELSE 0)
         - (IF hour = workStart \div 60 \/ hour = (workEnd \div 60) - 1 THEN 10 ELSE 0)
    ELSE IF schedulingStyle = "aggressive"
    THEN 5 + (IF hour >= 10 /\ hour <= 11 THEN 5 ELSE 0)
    ELSE (IF hour >= 10 /\ hour <= 11 THEN 10 ELSE 0)
         + (IF hour >= 14 /\ hour <= 15 THEN 5 ELSE 0)

unclampedScore(score) == score

\* Math.max(10, Math.min(100, score))
clampScore(score) == Max(10, Min(100, score))

personalizedTimeScore(dt, persona) ==
    LET mins == getHours(dt) * 60 + getMinutes(dt)
        workStart == hhmmToMinutes(persona.activeHours.workStart)
        workEnd == hhmmToMinutes(persona.activeHours.workEnd)
        lunchStart == hhmmToMinutes(persona.activeHours.lunchStart)
        lunchEnd == hhmmToMinutes(persona.activeHours.lunchEnd)
        buffer == IF persona.schedulingStyle = "conservative"
                  THEN Max(15, persona.bufferPreference) ELSE 10
        hourStr == <<getHours(dt), 0>>
        boost == IF hourStr \in persona.preferredMeetingTimes THEN 25 ELSE 0
    IN  IF mins < workStart \/ mins >= workEnd THEN 20
        ELSE IF mins >= lunchStart - buffer /\ mins < lunchEnd + buffer THEN 30
        ELSE clampScore(70 + boost
                        - routinePenalty(persona.routines, mins, buffer)
                        + styleAdjustment(persona.schedulingStyle, getHours(dt),
                                          workStart, workEnd))

\* persona is [kind |-> "undefined"], [kind |-> "null"] or an object
calculateTimeScore(dt, persona) ==
    IF persona.kind = "object" THEN personalizedTimeScore(dt, persona)
    ELSE defaultTimeScore(dt)

\* the proposal entries; reason texts are left out
createProposal(newTitle, newStart, newEnd) ==
    [action |-> "create", event_id |-> Null,
     proposed |-> Some([title |-> newTitle, start |-> toLocalISO(newStart),
                        end |-> toLocalISO(newEnd)])]

moveProposal(event, proposedStart) ==
    [action |-> "move", event_id |-> Some(event.id), event_title |-> event.title,
     original |-> [start |-> event.start, end |-> event.end],
     proposed |-> Some([start |-> toLocalISO(proposedStart),
                        end |-> toLocalISO(proposedStart
                                   + (NewDate(event.end) - NewDate(event.start)))])]

conflictProposal(event) ==
    [action |-> "conflict", event_id |-> Some(event.id), event_title |-> event.title,
     original |-> [start |-> event.start, end |-> event.end],
     proposed |-> Null]

strategyMinimizeMovesNoCreate(conflicts, newStart, newEnd, newTitle) ==
    [i \in DOMAIN conflicts |->
        IF conflicts[i].is_movable THEN moveProposal(conflicts[i], newEnd)
        ELSE conflictProposal(conflicts[i])]

strategyMinimizeMoves(conflicts, newStart, newEnd, newTitle) ==
    LET proposals == [i \in DOMAIN conflicts |->
                         IF conflicts[i].is_movable
                         THEN moveProposal(conflicts[i], newEnd)
                         ELSE conflictProposal(conflicts[i])]
    IN  IF \A i \in DOMAIN proposals : proposals[i].action = "move"
        THEN <<createProposal(newTitle, newStart, newEnd)>> \o proposals
        ELSE proposals

strategyRespectPriorityOrEqual(conflicts, newStart, newEnd, newTitle, newPriority) ==
    [i \in DOMAIN conflicts |->
        IF conflicts[i].priority >= newPriority /\ conflicts[i].is_movable
        THEN moveProposal(conflicts[i], newEnd)
        ELSE [priority |-> conflicts[i].priority] @@ conflictProposal(conflicts[i])]

strategyRespectPriority(conflicts, newStart, newEnd, newTitle, newPriority) ==
    [i \in DOMAIN conflicts |->
        IF conflicts[i].priority > newPriority /\ conflicts[i].is_movable
        THEN moveProposal(conflicts[i], newEnd)
        ELSE [priority |-> conflicts[i].priority] @@ conflictProposal(conflicts[i])]

KeepBufferMinutes == 15

strategyKeepBuffer(conflicts, newStart, newEnd, newTitle) ==
    [i \in DOMAIN conflicts |->
        IF conflicts[i].is_movable
        THEN moveProposal(conflicts[i], newEnd + KeepBufferMinutes)
        ELSE conflictProposal(conflicts[i])]

conflictsOfTouching(allEvents, newStart, newEnd) ==
    SelectSeq(allEvents, LAMBDA event :
        NewDate(event.start) <= newEnd /\ NewDate(event.end) >= newStart)

\* the fetched events with evStart < newEnd && evEnd > newStart
conflictsOf(allEvents, newStart, newEnd) ==
    SelectSeq(allEvents, LAMBDA event :
        NewDate(event.start) < newEnd /\ NewDate(event.end) > newStart)

DefaultTitle == "new event"

proposeScheduleAdjustment(newEvent, strategy) ==
    LET newStart == NewDate(newEvent.start)
        newEnd == NewDate(newEvent.end)
        newTitle == IF "title" \in DOMAIN newEvent THEN newEvent.title ELSE DefaultTitle
        newPriority == IF "priority" \in DOMAIN newEvent THEN newEvent.priority ELSE 3
        windowStart == newStart - 2 * 60
        windowEnd == newEnd + 2 * 60
        allEvents == getEvents(toLocalISO(windowStart), toLocalISO(windowEnd))
        conflicts == conflictsOf(allEvents, newStart, newEnd)
    IN  IF Len(conflicts) = 0 THEN <<createProposal(newTitle, newStart, newEnd)>>
        ELSE IF strategy = "respect_priority"
        THEN strategyRespectPriority(conflicts, newStart, newEnd, newTitle, newPriority)
        ELSE IF strategy = "keep_buffer"
        THEN strategyKeepBuffer(conflicts, newStart, newEnd, newTitle)
        ELSE strategyMinimizeMoves(conflicts, newStart, newEnd, newTitle)

\* ------------------------------------------------- stores the tools run on
\* The store after createEvent of each event of a list: the events, one
\* undo-log row per create, and the last changeset id.
StoreOf(evs) ==
    [events |-> [i \in {evs[k].id : k \in DOMAIN evs} |->
                    (CHOOSE e \in {evs[k] : k \in DOMAIN evs} : e.id = i)],
     undoLogs |-> [k \in DOMAIN evs |->
                    recordUndo(2 * k, 2 * k - 1,
                               <<[event_id |-> evs[k].id, before |-> Null]>>)],
     uuidCount |-> 2 * Len(evs),
     lastChangeSetId |-> IF evs = <<>> THEN NullChangeSet ELSE 2 * Len(evs) - 1]

\* the event lists of at most n events with ids e1, e2, ... and times,
\* movability and priority drawn from `universe`, in start order
EventLists(universe, n) ==
    UNION { { [k \in 1..len |->
                  [id |-> IdOrder[k], title |-> "A", start |-> u[k].start,
                   end |-> u[k].end,
                   category |-> IF "category" \in DOMAIN u[k] THEN u[k].category
                                ELSE "general",
                   tags |-> {},
                   is_movable |-> u[k].is_movable, priority |-> u[k].priority]]
              : u \in { v \in [1..len -> universe] :
                          \A k \in 1..(len - 1) : StrLE(v[k].start, v[k + 1].start) } }
            : len \in 0..n }

InitStore(evs) ==
    /\ events = StoreOf(evs).events
    /\ undoLogs = StoreOf(evs).undoLogs
    /\ uuidCount = StoreOf(evs).uuidCount
    /\ lastChangeSetId = StoreOf(evs).lastChangeSetId
    /\ last = NoCall
    /\ prev = NoCall
    /\ undone = {}
    /\ out = [op |-> "none"]
    /\ NoPersona
    /\ NoHost

UNCHANGED_store ==
    UNCHANGED <<events, undoLogs, lastChangeSetId, uuidCount, last, prev, undone, personaVars, hostVars>>

\* ------------------------------------------------- conflict and slot queries
MaxQueryEvents == 2

DayPoints ==
    {At(1, 8, 0), At(1, 9, 0), At(1, 10, 0), At(1, 12, 0), At(1, 13, 0),
     At(1, 18, 0), At(1, 19, 0)}

\* every interval over the day points with start < end, some with
\* start >= end (nothing in the store or the tools rejects them), one that
\* spans several days and one on another day
QueryIntervals ==
    {<<a, b>> \in DayPoints \X DayPoints : ~StrLE(b, a)}
    \cup {<<At(1, 12, 0), At(1, 12, 0)>>, <<At(1, 12, 0), At(1, 10, 0)>>,
          <<At(1, 13, 0), At(1, 9, 0)>>}
    \cup {<<At(0, 8, 0), At(3, 10, 0)>>, <<At(3, 9, 0), At(3, 10, 0)>>}

QueryUniverse ==
    {[start |-> i[1], end |-> i[2], is_movable |-> TRUE, priority |-> 3]
        : i \in QueryIntervals}

InitQuery == \E evs \in EventLists(QueryUniverse, MaxQueryEvents) : InitStore(evs)

ConflictQueries ==
    {<<a, b>> \in {At(1, 9, 0), At(1, 10, 0), At(1, 12, 0), At(1, 13, 0)}
                  \X {At(1, 10, 0), At(1, 12, 0), At(1, 13, 0), At(1, 18, 0)}
        : ~StrLE(b, a)}

CheckConflicts ==
    \E q \in ConflictQueries :
        /\ out' = [op |-> "checkConflicts", start |-> q[1], end |-> q[2],
                   result |-> checkConflicts(q[1], q[2])]
        /\ UNCHANGED_store

TimeRanges ==
    {Null, Some(<<<<10, 0>>, <<13, 0>>>>), Some(<<<<9, 0>>, <<24, 0>>>>)}

Durations == {60, 120, 300}

GetFreeSlots ==
    \E durationMinutes \in Durations, timeRange \in TimeRanges :
        /\ out' = [op |-> "getFreeSlots", date |-> 1,
                   durationMinutes |-> durationMinutes, timeRange |-> timeRange,
                   result |-> getFreeSlots(1, durationMinutes, timeRange)]
        /\ UNCHANGED_store

NextQuery ==
    \/ CheckConflicts
    \/ GetFreeSlots

SpecQuery == InitQuery /\ [][NextQuery]_vars

\* ------------------------------------------------------------- time scoring
ScoreHours == 0..23

ScoreMinutes == {0, 30}

Routine(start, end, confidence) ==
    [keyword |-> "r", dayOfWeek |-> {}, typicalStart |-> start, typicalEnd |-> end,
     confidence |-> confidence]

ScorePersonas ==
    {[kind |-> "object",
      activeHours |-> ah, routines |-> rs, preferredMeetingTimes |-> pm,
      schedulingStyle |-> st, bufferPreference |-> bp]
        : ah \in {[workStart |-> <<9, 0>>, workEnd |-> <<18, 0>>,
                   lunchStart |-> <<12, 30>>, lunchEnd |-> <<13, 30>>],
                  [workStart |-> <<8, 30>>, workEnd |-> <<17, 0>>,
                   lunchStart |-> <<12, 0>>, lunchEnd |-> <<13, 0>>]},
          rs \in {<<>>,
                  <<Routine(<<10, 0>>, <<11, 0>>, 20)>>,
                  <<Routine(<<9, 0>>, <<10, 0>>, 100)>>,
                  <<Routine(<<10, 0>>, <<11, 0>>, 20), Routine(<<10, 0>>, <<16, 0>>, 35),
                    Routine(<<14, 0>>, <<15, 0>>, 100)>>},
          pm \in {{}, {<<10, 0>>}, {<<9, 0>>, <<14, 0>>}},
          st \in {"conservative", "moderate", "aggressive"},
          bp \in {0, 45}}

\* the arguments of one calculateTimeScore call, drawn at the start
ScoreInputs ==
    {[op |-> "input", hour |-> hour, minute |-> minute, persona |-> persona]
        : hour \in ScoreHours, minute \in ScoreMinutes,
          persona \in ScorePersonas \cup {[kind |-> "undefined"], [kind |-> "null"]}}

InitScore ==
    /\ events = <<>>
    /\ undoLogs = <<>>
    /\ lastChangeSetId = NullChangeSet
    /\ uuidCount = 0
    /\ last = NoCall
    /\ prev = NoCall
    /\ undone = {}
    /\ out \in ScoreInputs
    /\ NoPersona
    /\ NoHost

CalculateTimeScore ==
    /\ out.op = "input"
    /\ out' = [out EXCEPT
                 !.op = "calculateTimeScore"]
             @@ [result |-> calculateTimeScore(
                                MinutesPerDay + out.hour * 60 + out.minute,
                                out.persona)]
    /\ UNCHANGED_store

NextScore == CalculateTimeScore

SpecScore == InitScore /\ [][NextScore]_vars

\* ------------------------------------------------------ schedule adjustment
MaxProposeEvents == 2

ProposeIntervals ==
    {<<At(1, 9, 0), At(1, 10, 0)>>, <<At(1, 10, 0), At(1, 11, 0)>>,
     <<At(1, 10, 0), At(1, 12, 0)>>, <<At(1, 11, 0), At(1, 13, 0)>>,
     <<At(1, 12, 0), At(1, 13, 0)>>, <<At(1, 11, 0), At(1, 10, 0)>>,
     <<At(0, 9, 0), At(2, 9, 0)>>}

ProposeUniverse ==
    {[start |-> i[1], end |-> i[2], is_movable |-> m, priority |-> p]
        : i \in ProposeIntervals, m \in BOOLEAN, p \in {3, 4}}

InitPropose ==
    \E evs \in EventLists(ProposeUniverse, MaxProposeEvents) : InitStore(evs)

NewEvents ==
    {[start |-> At(1, 10, 0), end |-> At(1, 11, 0)],
     [start |-> At(1, 10, 0), end |-> At(1, 12, 0), title |-> "T", priority |-> 4],
     [start |-> At(1, 11, 0), end |-> At(1, 12, 0), title |-> "T", priority |-> 3]}

Strategies == {"minimize_moves", "respect_priority", "keep_buffer", "other"}

ProposeScheduleAdjustment ==
    \E newEvent \in NewEvents, strategy \in Strategies :
        /\ out' = [op |-> "proposeScheduleAdjustment", newEvent |-> newEvent,
                   strategy |-> strategy,
                   result |-> proposeScheduleAdjustment(newEvent, strategy)]
        /\ UNCHANGED_store

NextPropose == ProposeScheduleAdjustment

SpecPropose == InitPropose /\ [][NextPropose]_vars

\* ------------------------------------------------------ findRelatedEvents
\* Here a string is the sequence of its characters.
toLowerCaseChar(c) ==
    IF c = "A" THEN "a" ELSE IF c = "B" THEN "b" ELSE IF c = "C" THEN "c" ELSE c

stringToLowerCase(s) == [i \in DOMAIN s |-> toLowerCaseChar(s[i])]

\* String.prototype.includes: k occurs in s as a substring
includes(s, k) ==
    \E i \in 0..(Len(s) - Len(k)) : SubSeq(s, i + 1, i + Len(k)) = k

\* db.events.orderBy('start').toArray()
getAllEvents == sortByStart({events[i] : i \in DOMAIN events})

\* the loop of findRelatedEvents over the events not scanned yet
RECURSIVE relatedLoop(_, _, _, _)
relatedLoop(allEvents, keywordLower, limit, related) ==
    IF allEvents = <<>> THEN related
    ELSE IF includes(stringToLowerCase(Head(allEvents).title), keywordLower)
    THEN (IF Len(related) + 1 >= limit
          THEN Append(related, Head(allEvents))
          ELSE relatedLoop(Tail(allEvents), keywordLower, limit,
                           Append(related, Head(allEvents))))
    ELSE relatedLoop(Tail(allEvents), keywordLower, limit, related)

findRelatedEvents(titleKeyword, limit) ==
    relatedLoop(getAllEvents, stringToLowerCase(titleKeyword), limit, <<>>)

MaxRelatedEvents == 3

RelatedTitles == {<<"A", "b">>, <<"a", "B", "c">>, <<"c", "a">>}

RelatedKeywords == {<<"a", "b">>, <<"B">>, <<"C", "a">>, <<"d">>, <<>>}

RelatedLimits == 0..3

RelatedLists ==
    UNION { { [k \in 1..len |->
                  [id |-> IdOrder[k], title |-> u[k][1], start |-> u[k][2],
                   end |-> At(0, 12, 0), category |-> "general", tags |-> {},
                   is_movable |-> TRUE, priority |-> 3]]
              : u \in [1..len -> RelatedTitles \X {T0, T1}] }
            : len \in 0..MaxRelatedEvents }

InitRelated ==
    /\ \E evs \in RelatedLists : InitStore(evs)

FindRelatedEvents ==
    \E titleKeyword \in RelatedKeywords, limit \in RelatedLimits :
        /\ out' = [op |-> "findRelatedEvents", titleKeyword |-> titleKeyword,
                   limit |-> limit,
                   result |-> findRelatedEvents(titleKeyword, limit)]
        /\ UNCHANGED_store

NextRelated == FindRelatedEvents

SpecRelated == InitRelated /\ [][NextRelated]_vars

\* ------------------------------------------------------ suggestOptimalTimes
suggestion(dateStr, currentTime, durationMinutes, availableUntil, persona) ==
    [date |-> dateStr, start |-> toLocalISO(currentTime),
     end |-> toLocalISO(currentTime + durationMinutes),
     available_until |-> toLocalISO(availableUntil),
     score |-> calculateTimeScore(currentTime, persona)]

\* the loop over one date's events: each event's span is widened by the buffer
RECURSIVE sweepSuggestions(_, _, _, _, _, _, _)
sweepSuggestions(evs, currentTime, durationMinutes, bufferMinutes, dateStr, persona, suggestions) ==
    IF evs = <<>> THEN [currentTime |-> currentTime, suggestions |-> suggestions]
    ELSE LET evStartMs == NewDate(Head(evs).start) - bufferMinutes
             evEndMs == NewDate(Head(evs).end) + bufferMinutes
             found == IF evStartMs > currentTime
                         /\ evStartMs - currentTime >= durationMinutes
                      THEN Append(suggestions,
                                  suggestion(dateStr, currentTime, durationMinutes,
                                             evStartMs, persona))
                      ELSE suggestions
         IN  sweepSuggestions(Tail(evs),
                              IF evEndMs > currentTime THEN evEndMs ELSE currentTime,
                              durationMinutes, bufferMinutes, dateStr, persona, found)

\* the body of the loop over preferredDates, for one date
suggestionsOfDate(dateStr, durationMinutes, startT, endT, avoidCategories, bufferMinutes, persona, suggestions) ==
    LET targetDate == parseDate(dateStr)
        dayStart == setHours(targetDate, startT.hour, startT.minute)
        dayEnd == setHours(targetDate, endT.hour, endT.minute)
        fetched == getEvents(toLocalISO(dayStart), toLocalISO(dayEnd))
        evs == IF avoidCategories # {}
               THEN SelectSeq(fetched, LAMBDA e : e.category \notin avoidCategories)
               ELSE fetched
        swept == sweepSuggestions(evs, dayStart, durationMinutes, bufferMinutes,
                                  dateStr, persona, suggestions)
    IN  IF swept.currentTime < dayEnd /\ dayEnd - swept.currentTime >= durationMinutes
        THEN Append(swept.suggestions,
                    suggestion(dateStr, swept.currentTime, durationMinutes, dayEnd,
                               persona))
        ELSE swept.suggestions

RECURSIVE suggestionsOfDates(_, _, _, _, _, _, _, _)
suggestionsOfDates(preferredDates, durationMinutes, startT, endT, avoidCategories, bufferMinutes, persona, suggestions) ==
    IF preferredDates = <<>> THEN suggestions
    ELSE suggestionsOfDates(Tail(preferredDates), durationMinutes, startT, endT,
                            avoidCategories, bufferMinutes, persona,
                            suggestionsOfDate(Head(preferredDates), durationMinutes,
                                              startT, endT, avoidCategories,
                                              bufferMinutes, persona, suggestions))

\* a sort by score that puts an entry before the earlier entries of its score
RECURSIVE sortByScoreTiesReversed(_)
sortByScoreTiesReversed(suggestions) ==
    IF suggestions = <<>> THEN <<>>
    ELSE LET sorted == sortByScoreTiesReversed(SubSeq(suggestions, 1,
                                                      Len(suggestions) - 1))
             s == suggestions[Len(suggestions)]
             before == SelectSeq(sorted, LAMBDA t : t.score > s.score)
             after == SelectSeq(sorted, LAMBDA t : t.score <= s.score)
         IN  before \o <<s>> \o after

\* suggestions.sort((a, b) => b.score - a.score): descending, and stable
RECURSIVE sortByScore(_)
sortByScore(suggestions) ==
    IF suggestions = <<>> THEN <<>>
    ELSE LET sorted == sortByScore(SubSeq(suggestions, 1, Len(suggestions) - 1))
             s == suggestions[Len(suggestions)]
             before == SelectSeq(sorted, LAMBDA t : t.score >= s.score)
             after == SelectSeq(sorted, LAMBDA t : t.score < s.score)
         IN  before \o <<s>> \o after

MaxSuggestions == 5

\* constraints has the keys that are given; threw: a time of the range does
\* not parse.  `suggestions` is the list before the sort.
suggestOptimalTimes(durationMinutes, preferredDates, constraints, persona) ==
    LET timeRange == IF "time_range" \in DOMAIN constraints
                     THEN constraints.time_range ELSE DEFAULT_WORK_HOURS
        avoidCategories == IF "avoid_categories" \in DOMAIN constraints
                           THEN constraints.avoid_categories ELSE {}
        bufferMinutes == IF "buffer_minutes" \in DOMAIN constraints
                         THEN constraints.buffer_minutes ELSE 0
        startT == parseTime(timeRange[1])
        endT == parseTime(timeRange[2])
        suggestions == suggestionsOfDates(preferredDates, durationMinutes,
                                          startT[1], endT[1], avoidCategories,
                                          bufferMinutes, persona, <<>>)
        sorted == sortByScore(suggestions)
    IN  IF startT = Null \/ endT = Null
        THEN [threw |-> TRUE, suggestions |-> <<>>, result |-> <<>>]
        ELSE [threw |-> FALSE, suggestions |-> suggestions,
              result |-> SubSeq(sorted, 1, Min(MaxSuggestions, Len(sorted)))]

MaxSuggestEvents == 2

SuggestIntervals ==
    {<<At(1, 8, 0), At(1, 8, 50)>>, <<At(1, 9, 0), At(1, 10, 0)>>,
     <<At(1, 10, 0), At(1, 11, 30)>>, <<At(1, 14, 0), At(1, 15, 0)>>,
     <<At(1, 12, 0), At(1, 10, 0)>>, <<At(2, 17, 0), At(2, 19, 0)>>}

SuggestUniverse ==
    {[start |-> i[1], end |-> i[2], is_movable |-> TRUE, priority |-> 3,
      category |-> c] : i \in SuggestIntervals, c \in {"meeting", "general"}}

SuggestConstraints ==
    {<<>>,
     [time_range |-> <<<<10, 0>>, <<13, 0>>>>, buffer_minutes |-> 30],
     [avoid_categories |-> {"meeting"}, buffer_minutes |-> 15],
     [time_range |-> <<<<9, 0>>, <<24, 0>>>>]}

SuggestDates == {<<1>>, <<2, 1>>, <<3, 1, 2, 4>>}

SuggestPersonas ==
    {[kind |-> "undefined"],
     [kind |-> "object",
      activeHours |-> [workStart |-> <<9, 0>>, workEnd |-> <<18, 0>>,
                       lunchStart |-> <<12, 30>>, lunchEnd |-> <<13, 30>>],
      routines |-> <<Routine(<<9, 0>>, <<10, 0>>, 100)>>,
      preferredMeetingTimes |-> {<<10, 0>>}, schedulingStyle |-> "moderate",
      bufferPreference |-> 0]}

\* the arguments of one suggestOptimalTimes call, drawn at the start
SuggestInputs ==
    {[op |-> "input", durationMinutes |-> durationMinutes,
      preferredDates |-> preferredDates, constraints |-> constraints,
      persona |-> persona]
        : durationMinutes \in {30, 60}, preferredDates \in SuggestDates,
          constraints \in SuggestConstraints, persona \in SuggestPersonas}

InitSuggest ==
    \E evs \in EventLists(SuggestUniverse, MaxSuggestEvents) :
        /\ events = StoreOf(evs).events
        /\ undoLogs = StoreOf(evs).undoLogs
        /\ uuidCount = StoreOf(evs).uuidCount
        /\ lastChangeSetId = StoreOf(evs).lastChangeSetId
        /\ last = NoCall
        /\ prev = NoCall
        /\ undone = {}
        /\ out \in SuggestInputs
        /\ NoPersona
        /\ NoHost

SuggestOptimalTimes ==
    /\ out.op = "input"
    /\ out' = [op |-> "suggestOptimalTimes", durationMinutes |-> out.durationMinutes,
               preferredDates |-> out.preferredDates, constraints |-> out.constraints,
               persona |-> out.persona,
               result |-> suggestOptimalTimes(out.durationMinutes, out.preferredDates,
                                              out.constraints, out.persona)]
    /\ UNCHANGED_store

NextSuggest == SuggestOptimalTimes

SpecSuggest == InitSuggest /\ [][NextSuggest]_vars

\* ------------------------------------------------------- persona (tools/persona)
MAX_NOTES == 50

DRIFT_THRESHOLD_MINUTES == 30

DRIFT_ADOPT_COUNT == 3

\* the Korean keywords are written in Latin letters
LUNCH_KEYWORDS == {"jeomsim", "lunch", "reonchi", "siksa"}

\* A title is the sequence of its words and a keyword is one word, so that
\* `lower.includes(k)` is: some lower-cased word of the title is k.
toLowerCase(word) ==
    IF word = "Lunch" THEN "lunch" ELSE IF word = "Standup" THEN "standup" ELSE word

titleMatchesKeywords(title, keywords) ==
    \E i \in DOMAIN title : toLowerCase(title[i]) \in keywords

\* 'HH:MM' is the pair <<hours, minutes>>
toHHMM(d) == <<getHours(d), getMinutes(d)>>

Abs(x) == IF x < 0 THEN 0 - x ELSE x

\* notes.slice(-MAX_NOTES), taken from the front instead (drops the newest)
sliceFirst(notes, n) ==
    SubSeq(notes, 1, Min(Len(notes), n))

\* array.slice(-n)
sliceLast(notes, n) ==
    SubSeq(notes, Max(1, Len(notes) - n + 1), Len(notes))

\* notes.findIndex(type === 'drift' && relatedRoutine === keyword), 0 for -1
findDriftNote(notes, keyword) ==
    LET found == {i \in DOMAIN notes :
                     notes[i].type = "drift" /\ notes[i].relatedRoutine = keyword}
    IN  IF found = {} THEN 0 ELSE CHOOSE i \in found : \A j \in found : i <= j

\* notes.splice(idx, 1)
spliceNote(notes, idx) ==
    SubSeq(notes, 1, idx - 1) \o SubSeq(notes, idx + 1, Len(notes))

\* Math.min(1, confidence + 0.1) without the cap
bumpConfidenceUncapped(confidence) == confidence + 10

\* Math.min(1, confidence + 0.1), confidence in hundredths
bumpConfidence(confidence) == Min(100, confidence + 10)

\* One turn of the loop over persona.routines in detectDriftInner, on the
\* routine at index i; st is [persona, changed, seen, adopted], where seen
\* and adopted are the keywords that drifted and that were adopted so far.
driftRoutine(st, mutatedEvent, now, i) ==
    LET persona == st.persona
        routine == persona.routines[i]
        evStart == NewDate(mutatedEvent.start)
        evEnd == NewDate(mutatedEvent.end)
        evStartMin == getHours(evStart) * 60 + getMinutes(evStart)
        evEndMin == getHours(evEnd) * 60 + getMinutes(evEnd)
        startDiff == Abs(evStartMin - hhmmToMinutes(routine.typicalStart))
        endDiff == Abs(evEndMin - hhmmToMinutes(routine.typicalEnd))
        noteContent == [keyword |-> routine.keyword, from |-> routine.typicalStart,
                        to |-> toHHMM(evStart)]
        existingIdx == findDriftNote(persona.notes, routine.keyword)
        existing == [persona.notes[existingIdx] EXCEPT
                        !.count = @ + 1, !.content = noteContent, !.createdAt = now]
        adoptedRoutine == [routine EXCEPT
                              !.typicalStart = toHHMM(evStart),
                              !.typicalEnd = toHHMM(evEnd),
                              !.confidence = bumpConfidence(routine.confidence)]
        adoptedPersona ==
            [persona EXCEPT
                !.routines = [persona.routines EXCEPT ![i] = adoptedRoutine],
                !.notes = spliceNote(persona.notes, existingIdx),
                !.activeHours =
                    IF titleMatchesKeywords(<<routine.keyword>>, LUNCH_KEYWORDS)
                    THEN [@ EXCEPT !.lunchStart = adoptedRoutine.typicalStart,
                                   !.lunchEnd = adoptedRoutine.typicalEnd]
                    ELSE @]
        countedPersona ==
            [persona EXCEPT !.notes = [persona.notes EXCEPT ![existingIdx] = existing]]
        notedPersona ==
            [persona EXCEPT !.notes = Append(persona.notes,
                [createdAt |-> now, type |-> "drift", content |-> noteContent,
                 relatedRoutine |-> routine.keyword, count |-> 1])]
    IN  IF ~titleMatchesKeywords(mutatedEvent.title, {routine.keyword}) THEN st
        ELSE IF startDiff < DRIFT_THRESHOLD_MINUTES /\ endDiff < DRIFT_THRESHOLD_MINUTES
        THEN st
        ELSE IF existingIdx > 0
        THEN IF existing.count >= DRIFT_ADOPT_COUNT
             THEN [persona |-> adoptedPersona, changed |-> TRUE,
                   seen |-> Append(st.seen, routine.keyword),
                   adopted |-> Append(st.adopted, routine.keyword)]
             ELSE [persona |-> countedPersona, changed |-> TRUE,
                   seen |-> Append(st.seen, routine.keyword), adopted |-> st.adopted]
        ELSE [persona |-> notedPersona, changed |-> TRUE,
              seen |-> Append(st.seen, routine.keyword), adopted |-> st.adopted]

RECURSIVE driftRoutines(_, _, _, _)
driftRoutines(st, mutatedEvent, now, i) ==
    IF i > Len(st.persona.routines) THEN st
    ELSE driftRoutines(driftRoutine(st, mutatedEvent, now, i), mutatedEvent, now, i + 1)

\* detectDriftInner on the persona read: the persona to write, whether it
\* is written, and the routines that drifted and were adopted
detectDriftInner(persona, mutatedEvent, now) ==
    LET st == driftRoutines([persona |-> persona, changed |-> FALSE,
                             seen |-> <<>>, adopted |-> <<>>], mutatedEvent, now, 1)
    IN  IF st.changed
        THEN [st EXCEPT !.persona =
                 [@ EXCEPT !.notes = IF Len(@) > MAX_NOTES THEN sliceLast(@, MAX_NOTES)
                                     ELSE @,
                           !.updatedAt = now]]
        ELSE st

\* updatePersona with activeHours replaced by the patch instead of merged
updatePersonaReplacesHours(current, changes, reason, now) ==
    [current EXCEPT
        !.updatedAt = now,
        !.activeHours = IF "activeHours" \in DOMAIN changes
                        THEN changes.activeHours ELSE @,
        !.schedulingStyle = IF "schedulingStyle" \in DOMAIN changes
                                /\ changes.schedulingStyle # ""
                            THEN changes.schedulingStyle ELSE @,
        !.bufferPreference = IF "bufferPreference" \in DOMAIN changes
                             THEN changes.bufferPreference ELSE @,
        !.routines = IF "routines" \in DOMAIN changes THEN changes.routines ELSE @,
        !.notes = sliceLast(Append(@, [createdAt |-> now, type |-> "explicit",
                                       content |-> reason, count |-> 1]),
                            MAX_NOTES)]

\* updatePersona(changes, reason) on the persona read; `changes` has the
\* keys that are given
updatePersona(current, changes, reason, now) ==
    [current EXCEPT
        !.updatedAt = now,
        !.activeHours = IF "activeHours" \in DOMAIN changes
                        THEN changes.activeHours @@ @ ELSE @,
        !.schedulingStyle = IF "schedulingStyle" \in DOMAIN changes
                                /\ changes.schedulingStyle # ""
                            THEN changes.schedulingStyle ELSE @,
        !.bufferPreference = IF "bufferPreference" \in DOMAIN changes
                             THEN changes.bufferPreference ELSE @,
        !.routines = IF "routines" \in DOMAIN changes THEN changes.routines ELSE @,
        !.notes = sliceLast(Append(@, [createdAt |-> now, type |-> "explicit",
                                       content |-> reason, count |-> 1]),
                            MAX_NOTES)]

\* The persona analyzeUserPatterns stores: the extract* results for the
\* calendar's events (`analysis`), stamped, with no notes.
analyzeUserPatterns(analysis, now) ==
    [version |-> 1, createdAt |-> now, updatedAt |-> now,
     activeHours |-> analysis.activeHours, routines |-> analysis.routines,
     schedulingStyle |-> analysis.schedulingStyle,
     preferredMeetingTimes |-> analysis.preferredMeetingTimes,
     avgDailyEvents |-> analysis.avgDailyEvents,
     bufferPreference |-> analysis.bufferPreference,
     notes |-> <<>>]

\* ------------------------------------------------------- persona calls
MaxCalls == 3

Keywords == {"lunch", "standup"}

NoDrift == [k \in Keywords |-> 0]

\* what the extract* functions give for a calendar with a lunch and a
\* stand-up routine
Analysis ==
    [activeHours |-> [workStart |-> <<9, 0>>, workEnd |-> <<18, 0>>,
                      lunchStart |-> <<12, 0>>, lunchEnd |-> <<13, 0>>],
     routines |-> <<[keyword |-> "lunch", dayOfWeek |-> {},
                     typicalStart |-> <<12, 0>>, typicalEnd |-> <<13, 0>>,
                     confidence |-> 80],
                    [keyword |-> "standup", dayOfWeek |-> {1, 2, 3, 4, 5},
                     typicalStart |-> <<9, 0>>, typicalEnd |-> <<9, 30>>,
                     confidence |-> 95]>>,
     schedulingStyle |-> "moderate", preferredMeetingTimes |-> <<<<10, 0>>>>,
     avgDailyEvents |-> 3, bufferPreference |-> 15]

\* the calendar has events to analyse, or none
AnalysisInputs == {Some(Analysis), Null}

DriftEvents ==
    {[title |-> <<"Lunch">>, start |-> At(1, 12, 29), end |-> At(1, 13, 29)],
     [title |-> <<"Standup">>, start |-> At(1, 9, 30), end |-> At(1, 10, 0)],
     [title |-> <<"lunch", "standup">>, start |-> At(1, 12, 10), end |-> At(1, 13, 30)]}

UpdateInputs ==
    {[changes |-> <<>>, reason |-> "r"],
     [changes |-> [activeHours |-> [lunchStart |-> <<11, 30>>],
                   schedulingStyle |-> "conservative", bufferPreference |-> 0],
      reason |-> "q"],
     [changes |-> [routines |-> <<[keyword |-> "standup", dayOfWeek |-> {},
                                   typicalStart |-> <<10, 0>>,
                                   typicalEnd |-> <<10, 30>>,
                                   confidence |-> 50]>>], reason |-> "r"]}

\* the persona after n more updatePersona({}, "r") calls, the first at now + 1
RECURSIVE updatedTimes(_, _, _)
updatedTimes(persona, n, now) ==
    IF n = 0 THEN persona
    ELSE updatedTimes(updatePersona(persona, <<>>, "r", now + 1), n - 1, now + 1)

\* The stores the calls start from: no persona; the persona just analysed;
\* the analysed persona after one drifting stand-up and 49 explicit updates
\* (50 notes, the drift note first).
InitialStores ==
    {[userPersona |-> Null, clock |-> 0, driftCount |-> NoDrift],
     [userPersona |-> Some(analyzeUserPatterns(Analysis, 1)),
      clock |-> 1, driftCount |-> NoDrift],
     [userPersona |->
          Some(updatedTimes(
                  detectDriftInner(analyzeUserPatterns(Analysis, 1),
                      [title |-> <<"Standup">>, start |-> At(1, 9, 30),
                       end |-> At(1, 10, 0)], 2).persona, 49, 2)),
      clock |-> 51, driftCount |-> [NoDrift EXCEPT !["standup"] = 1]]}

InitPersona ==
    /\ events = <<>>
    /\ undoLogs = <<>>
    /\ lastChangeSetId = NullChangeSet
    /\ uuidCount = 0
    /\ last = NoCall
    /\ prev = NoCall
    /\ undone = {}
    /\ out = [op |-> "none"]
    /\ \E store \in InitialStores :
          /\ userPersona = store.userPersona
          /\ clock = store.clock
          /\ driftCount = store.driftCount
          /\ serialPersona = store.userPersona
    /\ driftLock = 0
    /\ calls = <<>>
    /\ NoHost

Done(kind) == [kind |-> kind, pc |-> "done"]

\* detectDrift up to `await prev`: takes the lock promise and replaces it
DetectDriftCall ==
    \E mutatedEvent \in DriftEvents :
        /\ Len(calls) < MaxCalls
        /\ calls' = Append(calls, [kind |-> "detectDrift", pc |-> "awaitLock",
                                   prev |-> driftLock, mutatedEvent |-> mutatedEvent])
        /\ driftLock' = Len(calls) + 1
        /\ serialPersona' =
              IF serialPersona = Null THEN Null
              ELSE Some(detectDriftInner(serialPersona[1], mutatedEvent, 0).persona)
        /\ UNCHANGED <<userPersona, clock, driftCount, out>>
        /\ UNCHANGED <<events, undoLogs, lastChangeSetId, uuidCount, last, prev, undone, hostVars>>

\* `await prev` without the wait
lockNotAwaited(prevCall) == TRUE

\* `await prev` with resolve() after the try instead of in `finally`
lockResolvedUnlessThrown(prevCall) ==
    IF prevCall = 0 THEN TRUE
    ELSE calls[prevCall].pc = "done" /\ "threw" \notin DOMAIN calls[prevCall]

\* `await prev` can return: the promise taken at the call is resolved
lockResolved(prevCall) == IF prevCall = 0 THEN TRUE ELSE calls[prevCall].pc = "done"

\* detectDrift from `await prev` to `await setPersona`: getPersona and the
\* loop; without a persona or a change it returns and resolves its promise
DetectDriftRead ==
    \E id \in DOMAIN calls :
        /\ calls[id].kind = "detectDrift"
        /\ calls[id].pc = "awaitLock"
        /\ lockResolved(calls[id].prev)
        /\ IF userPersona = Null
           THEN /\ calls' = [calls EXCEPT ![id] = Done("detectDrift")]
                /\ out' = [op |-> "detectDrift", id |-> id, read |-> Null,
                           changed |-> FALSE]
                /\ UNCHANGED <<clock, driftCount>>
           ELSE LET r == detectDriftInner(userPersona[1], calls[id].mutatedEvent,
                                          clock + 1)
                    seen == {r.seen[i] : i \in DOMAIN r.seen}
                    adopted == {r.adopted[i] : i \in DOMAIN r.adopted}
                IN  /\ calls' = [calls EXCEPT ![id] =
                                    IF r.changed
                                    THEN [kind |-> "detectDrift", pc |-> "setPersona",
                                          read |-> userPersona,
                                          persona |-> r.persona]
                                    ELSE Done("detectDrift")]
                    /\ clock' = IF r.changed THEN clock + 1 ELSE clock
                    /\ driftCount' = [k \in Keywords |->
                                         IF k \in adopted THEN 0
                                         ELSE IF k \in seen THEN driftCount[k] + 1
                                         ELSE driftCount[k]]
                    /\ out' = [op |-> "detectDrift", id |-> id, read |-> userPersona,
                               result |-> r.persona, changed |-> r.changed,
                               seen |-> seen, adopted |-> adopted,
                               ordinal |-> [k \in seen |-> driftCount[k] + 1]]
        /\ UNCHANGED <<userPersona, driftLock, serialPersona>>
        /\ UNCHANGED <<events, undoLogs, lastChangeSetId, uuidCount, last, prev, undone, hostVars>>

\* detectDrift from setPersona to the end: the write, then `finally` resolves
DetectDriftWrite ==
    \E id \in DOMAIN calls :
        /\ calls[id].kind = "detectDrift"
        /\ calls[id].pc = "setPersona"
        /\ userPersona' = Some(calls[id].persona)
        /\ calls' = [calls EXCEPT ![id] = Done("detectDrift")]
        /\ UNCHANGED <<driftLock, clock, driftCount, serialPersona, out>>
        /\ UNCHANGED <<events, undoLogs, lastChangeSetId, uuidCount, last, prev, undone, hostVars>>

\* updatePersona up to `await setPersona`: getPersona, the throw without a
\* persona, the patch
UpdatePersonaRead ==
    \E input \in UpdateInputs :
        /\ Len(calls) < MaxCalls
        /\ IF userPersona = Null
           THEN /\ calls' = Append(calls, Done("updatePersona"))
                /\ out' = [op |-> "updatePersona", ret |-> "throw", read |-> Null,
                           changes |-> input.changes, reason |-> input.reason]
                /\ UNCHANGED clock
           ELSE LET updated == updatePersona(userPersona[1], input.changes,
                                             input.reason, clock + 1)
                IN  /\ calls' = Append(calls, [kind |-> "updatePersona",
                                               pc |-> "setPersona",
                                               read |-> userPersona,
                                               persona |-> updated])
                    /\ out' = [op |-> "updatePersona", ret |-> "persona",
                               read |-> userPersona, result |-> updated,
                               changes |-> input.changes, reason |-> input.reason]
                    /\ clock' = clock + 1
        /\ serialPersona' = Null
        /\ UNCHANGED <<userPersona, driftLock, driftCount>>
        /\ UNCHANGED <<events, undoLogs, lastChangeSetId, uuidCount, last, prev, undone, hostVars>>

UpdatePersonaWrite ==
    \E id \in DOMAIN calls :
        /\ calls[id].kind = "updatePersona"
        /\ calls[id].pc = "setPersona"
        /\ userPersona' = Some(calls[id].persona)
        /\ calls' = [calls EXCEPT ![id] = Done("updatePersona")]
        /\ UNCHANGED <<driftLock, clock, driftCount, serialPersona, out>>
        /\ UNCHANGED <<events, undoLogs, lastChangeSetId, uuidCount, last, prev, undone, hostVars>>

\* analyzeUserPatterns: throws when there is no event to analyse, else
\* stores a new persona
AnalyzeUserPatterns ==
    \E analysis \in AnalysisInputs :
        /\ Len(calls) < MaxCalls
        /\ calls' = Append(calls, Done("analyzeUserPatterns"))
        /\ IF analysis = Null
           THEN /\ out' = [op |-> "analyzeUserPatterns", ret |-> "throw"]
                /\ UNCHANGED <<userPersona, clock, driftCount>>
           ELSE /\ userPersona' = Some(analyzeUserPatterns(analysis[1], clock + 1))
                /\ clock' = clock + 1
                /\ driftCount' = NoDrift
                /\ out' = [op |-> "analyzeUserPatterns", ret |-> "persona"]
        /\ serialPersona' = Null
        /\ UNCHANGED driftLock
        /\ UNCHANGED <<events, undoLogs, lastChangeSetId, uuidCount, last, prev, undone, hostVars>>

NextPersona ==
    \/ DetectDriftCall
    \/ DetectDriftRead
    \/ DetectDriftWrite
    \/ UpdatePersonaRead
    \/ UpdatePersonaWrite
    \/ AnalyzeUserPatterns

SpecPersona == InitPersona /\ [][NextPersona]_vars

\* ------------------------------------------- detectDrift with a failing store
\* getPersona throws inside detectDriftInner: `finally` resolves the promise
\* and detectDrift rejects
DetectDriftReadThrows ==
    \E id \in DOMAIN calls :
        /\ calls[id].kind = "detectDrift"
        /\ calls[id].pc = "awaitLock"
        /\ lockResolved(calls[id].prev)
        /\ calls' = [calls EXCEPT ![id] =
                        [kind |-> "detectDrift", pc |-> "done", threw |-> TRUE]]
        /\ UNCHANGED <<userPersona, driftLock, clock, driftCount, serialPersona, out>>
        /\ UNCHANGED <<events, undoLogs, lastChangeSetId, uuidCount, last, prev, undone, hostVars>>

\* setPersona throws inside detectDriftInner: nothing is stored, `finally`
\* resolves the promise and detectDrift rejects
DetectDriftWriteThrows ==
    \E id \in DOMAIN calls :
        /\ calls[id].kind = "detectDrift"
        /\ calls[id].pc = "setPersona"
        /\ calls' = [calls EXCEPT ![id] =
                        [kind |-> "detectDrift", pc |-> "done", threw |-> TRUE]]
        /\ UNCHANGED <<userPersona, driftLock, clock, driftCount, serialPersona, out>>
        /\ UNCHANGED <<events, undoLogs, lastChangeSetId, uuidCount, last, prev, undone, hostVars>>

\* a persona-store call of a detectDrift invocation returns or throws
DriftStoreCallEnds ==
    \/ DetectDriftReadThrows
    \/ DetectDriftWriteThrows
    \/ DetectDriftRead
    \/ DetectDriftWrite

NextDrift ==
    \/ DetectDriftCall
    \/ DetectDriftRead
    \/ DetectDriftReadThrows
    \/ DetectDriftWrite
    \/ DetectDriftWriteThrows

\* every persona-store call eventually returns or throws
SpecDriftFair == InitPersona /\ [][NextDrift]_vars /\ WF_vars(DriftStoreCallEnds)

\* ------------------------------------------------- mutation tools (tool level)
\* the tool returns {success: false, error} without calling the calendar
toolError(op, id) ==
    /\ prev' = last
    /\ last' = Call(op, id, NullChangeSet, 0, "error", lastChangeSetId)
    /\ UNCHANGED <<events, undoLogs, lastChangeSetId, uuidCount, undone, out, personaVars, guardVars, loopVars>>

\* create_event: the category is validated, start and end are stored as given
create_event(title, start, end, category, gen, fault) ==
    IF category \notin Category
    THEN toolError("create_event", NoId)
    ELSE createEvent([id |-> NoId, title |-> title, start |-> start, end |-> end,
                      category |-> category, tags |-> {}, is_movable |-> TRUE,
                      priority |-> 3],
                     gen, fault)

\* update_event: the event must exist and a category of the patch be valid
update_event(eventId, changes, fault) ==
    IF eventId \notin DOMAIN events
    THEN toolError("update_event", eventId)
    ELSE IF "category" \in DOMAIN changes /\ changes.category \notin Category
    THEN toolError("update_event", eventId)
    ELSE updateEvent(eventId, changes, fault)

delete_event(eventId, fault) ==
    IF eventId \notin DOMAIN events
    THEN toolError("delete_event", eventId)
    ELSE deleteEvent(eventId, fault)

\* undo_event: calendar.undo(args.change_set_id)
undo_event(changeSetId, fault) == undo(changeSetId, fault)

\* the start and end arguments: any two of these, in any order
ToolTimes == {T0, T1}

ToolPatches ==
    { [category |-> "bogus"],
      [start |-> T1, end |-> T0] }

ToolCreateEvent ==
    \E start \in ToolTimes, end \in ToolTimes, category \in {"general", "bogus"},
       gen \in EventIds \ DOMAIN events, fault \in 0..1 :
        /\ (fault = 1 => start = T0 /\ end = T1)
        /\ create_event("A", start, end, category, gen, fault)
        /\ UNCHANGED callback

ToolUpdateEvent ==
    \E eventId \in EventIds, changes \in ToolPatches, fault \in 0..1 :
        /\ update_event(eventId, changes, fault)
        /\ UNCHANGED callback

ToolDeleteEvent ==
    \E eventId \in EventIds :
        /\ delete_event(eventId, 0)
        /\ UNCHANGED callback

ToolUndoEvent ==
    \E changeSetId \in ChangeSetArgs :
        undo_event(changeSetId, 0)

NextTools ==
    \/ ToolCreateEvent
    \/ ToolUpdateEvent
    \/ ToolDeleteEvent
    \/ ToolUndoEvent

SpecTools == Init /\ [][NextTools]_vars

\* ------------------------------------- service worker: the executeTool callback
\* the persona calls (detectDrift, update_persona, analyze_user_patterns) of
\* one run of the loop
MaxWorkerCalls == 2

\* the result object of the mutation tool whose store call is `call`
toolResultOf(call) ==
    IF call.ret = "event" THEN [success |-> TRUE, change_set_id |-> call.lcs]
    ELSE [success |-> FALSE]

\* the callback awaiting detectDrift and failing with it
handBackAfterDrift(toolResult, queued) ==
    IF queued THEN [success |-> FALSE] ELSE toolResult

\* `return toolResult`
handBack(toolResult, queued) == toolResult

\* args.title && args.start && args.end
hasDriftArgs(args) == {"title", "start", "end"} \subseteq DOMAIN args

\* the mutation the callback reports to detectDrift
driftArgs(args) == [title |-> args.title, start |-> args.start, end |-> args.end]

\* a lunch that drifts from the analysed routine, and a stand-up that does
WorkerLunch == [title |-> <<"Lunch">>, start |-> At(1, 12, 30), end |-> At(1, 13, 30)]

WorkerStandup == [title |-> <<"Standup">>, start |-> At(1, 9, 30), end |-> At(1, 10, 0)]

WorkerCreateArgs ==
    {[title |-> WorkerLunch.title, start |-> WorkerLunch.start,
      end |-> WorkerLunch.end, category |-> category] :
        category \in {"general", "bogus"}}

WorkerUpdateArgs ==
    {[event_id |-> "e1", title |-> WorkerStandup.title,
      start |-> WorkerStandup.start, end |-> WorkerStandup.end],
     [event_id |-> "e1", start |-> T0, end |-> T1]}

\* the changes update_event passes on: the keys of args that are event fields
changesOf(args) == [k \in DOMAIN args \ {"event_id"} |-> args[k]]

\* the loop awaits a tool before it calls the next: no callback and no
\* explicit persona tool is between its call and its return
ToolIdle ==
    /\ (IF callback = Null THEN TRUE ELSE callback[1].pc = "returned")
    /\ \A id \in DOMAIN calls :
          ~(calls[id].kind = "updatePersona" /\ calls[id].pc = "setPersona")

\* the callback up to the return of `await executeTool`: create_event
WorkerCreateEvent ==
    \E args \in WorkerCreateArgs, gen \in EventIds \ DOMAIN events, fault \in 0..1 :
        /\ (fault = 1 => args.category = "general")
        /\ ToolIdle
        /\ Len(calls) < MaxWorkerCalls
        /\ create_event(args.title, args.start, args.end, args.category, gen, fault)
        /\ callback' = Some([pc |-> "executeTool", name |-> "create_event",
                             args |-> args])

\* the callback up to the return of `await executeTool`: update_event
WorkerUpdateEvent ==
    \E args \in WorkerUpdateArgs :
        /\ ToolIdle
        /\ Len(calls) < MaxWorkerCalls
        /\ update_event(args.event_id, changesOf(args), 0)
        /\ callback' = Some([pc |-> "executeTool", name |-> "update_event",
                             args |-> args])

\* the callback from the return of executeTool to its own return: for
\* create_event and update_event with title, start and end, detectDrift is
\* called and runs up to `await prev`; the tool result is returned
WorkerCallbackReturns ==
    /\ (IF callback = Null THEN FALSE ELSE callback[1].pc = "executeTool")
    /\ LET name == callback[1].name
           args == callback[1].args
           drift == name \in {"create_event", "update_event"} /\ hasDriftArgs(args)
       IN  /\ calls' = IF drift
                       THEN Append(calls, [kind |-> "detectDrift", pc |-> "awaitLock",
                                           prev |-> driftLock,
                                           mutatedEvent |-> driftArgs(args)])
                       ELSE calls
           /\ driftLock' = IF drift THEN Len(calls) + 1 ELSE driftLock
           /\ serialPersona' =
                 IF drift /\ serialPersona # Null
                 THEN Some(detectDriftInner(serialPersona[1], driftArgs(args), 0).persona)
                 ELSE serialPersona
           /\ callback' = Some([pc |-> "returned", name |-> name, args |-> args,
                                result |-> handBack(toolResultOf(last),
                                                    drift /\ ~lockResolved(driftLock)),
                                drift |-> IF drift THEN Len(calls) + 1 ELSE 0])
    /\ UNCHANGED <<userPersona, clock, driftCount, out>>
    /\ UNCHANGED <<events, undoLogs, lastChangeSetId, uuidCount, last, prev, undone,
                   guardVars, loopVars>>

\* update_persona, called by the loop when no other tool is in flight
WorkerUpdatePersona ==
    /\ ToolIdle
    /\ Len(calls) < MaxWorkerCalls
    /\ UpdatePersonaRead

\* analyze_user_patterns, called by the loop when no other tool is in flight
WorkerAnalyzeUserPatterns ==
    /\ ToolIdle
    /\ Len(calls) < MaxWorkerCalls
    /\ AnalyzeUserPatterns

NextWorker ==
    \/ WorkerCreateEvent
    \/ WorkerUpdateEvent
    \/ WorkerCallbackReturns
    \/ DetectDriftRead
    \/ DetectDriftReadThrows
    \/ DetectDriftWrite
    \/ DetectDriftWriteThrows
    \/ WorkerUpdatePersona
    \/ UpdatePersonaWrite
    \/ WorkerAnalyzeUserPatterns

SpecWorker == InitPersona /\ [][NextWorker]_vars

\* ------------------------------------------------ service worker: chat requests
MaxRequests == 3

\* shared/constants is not part of the sources: the length the history is
\* trimmed to is a bound of the model
MAX_MESSAGES == 4

\* a request is in flight from its arrival to the end of handleChatRequest
InFlight(request) == request.pc \in {"getStorage", "isSignedIn", "getPersona", "loop"}

\* `if (isProcessing)` at the head of handleChatRequest
guard == isProcessing

trim(history) == sliceLast(history, MAX_MESSAGES)

Request(pc, reply) ==
    [pc |-> pc, reply |-> reply, pushed |-> FALSE, tool |-> FALSE,
     busy |-> \E i \in DOMAIN requests : InFlight(requests[i])]

\* CHAT_REQUEST: handleChatRequest up to `await getStorage()`
ChatRequest ==
    /\ Len(requests) < MaxRequests
    /\ \E tooLong \in BOOLEAN :
          requests' = Append(requests,
              IF guard THEN Request("returned", "STREAM_ERROR")
              ELSE IF tooLong THEN Request("returned", "STREAM_ERROR")
              ELSE Request("getStorage", "none"))
    /\ UNCHANGED <<isProcessing, conversationMessages>>
    /\ UNCHANGED <<events, undoLogs, lastChangeSetId, uuidCount, last, prev, undone,
                   out, personaVars, loopVars, callback>>

\* getStorage returns: up to `await gcalApi.isSignedIn()`
GetStorageReturns ==
    \E id \in DOMAIN requests, configured \in BOOLEAN :
        /\ requests[id].pc = "getStorage"
        /\ requests' = [requests EXCEPT ![id] =
              IF configured THEN [@ EXCEPT !.pc = "isSignedIn"]
              ELSE [@ EXCEPT !.pc = "returned", !.reply = "STREAM_ERROR"]]
        /\ UNCHANGED <<isProcessing, conversationMessages>>
        /\ UNCHANGED <<events, undoLogs, lastChangeSetId, uuidCount, last, prev, undone,
                       out, personaVars, loopVars, callback>>

\* isSignedIn returns: isProcessing = true, the user message is pushed, up
\* to `await getPersona()`
IsSignedInReturns ==
    \E id \in DOMAIN requests, signedIn \in BOOLEAN :
        /\ requests[id].pc = "isSignedIn"
        /\ IF signedIn
           THEN /\ isProcessing' = TRUE
                /\ conversationMessages' =
                      trim(Append(conversationMessages, [role |-> "user", of |-> id]))
                /\ requests' = [requests EXCEPT ![id] =
                      [@ EXCEPT !.pc = "getPersona", !.reply = "STREAM_START",
                                !.pushed = TRUE]]
           ELSE /\ requests' = [requests EXCEPT ![id] =
                      [@ EXCEPT !.pc = "returned", !.reply = "STREAM_ERROR"]]
                /\ UNCHANGED <<isProcessing, conversationMessages>>
        /\ UNCHANGED <<events, undoLogs, lastChangeSetId, uuidCount, last, prev, undone,
                       out, personaVars, loopVars, callback>>

\* getPersona returns and runToolUseLoop is called inside the try, or
\* getPersona throws: that is outside the try, nothing is reset
GetPersonaReturns ==
    \E id \in DOMAIN requests, throws \in BOOLEAN :
        /\ requests[id].pc = "getPersona"
        /\ requests' = [requests EXCEPT ![id] =
              IF throws THEN [@ EXCEPT !.pc = "threw"] ELSE [@ EXCEPT !.pc = "loop"]]
        /\ UNCHANGED <<isProcessing, conversationMessages>>
        /\ UNCHANGED <<events, undoLogs, lastChangeSetId, uuidCount, last, prev, undone,
                       out, personaVars, loopVars, callback>>

\* the loop of a request executes a tool
LoopExecutesTool ==
    \E id \in DOMAIN requests :
        /\ requests[id].pc = "loop"
        /\ ~requests[id].tool
        /\ requests' = [requests EXCEPT ![id] = [@ EXCEPT !.tool = TRUE]]
        /\ UNCHANGED <<isProcessing, conversationMessages>>
        /\ UNCHANGED <<events, undoLogs, lastChangeSetId, uuidCount, last, prev, undone,
                       out, personaVars, loopVars, callback>>

\* runToolUseLoop returns or throws: the rest of try, catch and finally
LoopEnds ==
    \E id \in DOMAIN requests, throws \in BOOLEAN :
        /\ requests[id].pc = "loop"
        /\ conversationMessages' =
              IF throws
              THEN (IF conversationMessages # <<>>
                       /\ conversationMessages[Len(conversationMessages)].role = "user"
                    THEN SubSeq(conversationMessages, 1, Len(conversationMessages) - 1)
                    ELSE conversationMessages)
              ELSE trim(Append(conversationMessages, [role |-> "assistant", of |-> id]))
        /\ requests' = [requests EXCEPT ![id] =
              [@ EXCEPT !.pc = "returned",
                        !.reply = IF throws THEN "STREAM_ERROR" ELSE "STREAM_DONE"]]
        /\ isProcessing' = FALSE
        /\ UNCHANGED <<events, undoLogs, lastChangeSetId, uuidCount, last, prev, undone,
                       out, personaVars, loopVars, callback>>

NextGuard ==
    \/ ChatRequest
    \/ GetStorageReturns
    \/ IsSignedInReturns
    \/ GetPersonaReturns
    \/ LoopExecutesTool
    \/ LoopEnds

SpecGuard == Init /\ [][NextGuard]_vars

\* ------------------------------------------------------ runToolUseLoop
\* shared/constants is not part of the sources: the number of iterations is
\* a bound of the model
MAX_TOOL_ITERATIONS == 3

TextBlock == [type |-> "text"]

ToolUse(id) == [type |-> "tool_use", id |-> id, name |-> "test_tool"]

\* what provider.chat can answer
Responses ==
    {[stopReason |-> "end_turn", content |-> <<TextBlock>>],
     [stopReason |-> "max_tokens", content |-> <<ToolUse("tu_1")>>],
     [stopReason |-> "tool_use", content |-> <<TextBlock, ToolUse("tu_1")>>],
     [stopReason |-> "tool_use",
      content |-> <<ToolUse("tu_1"), TextBlock, ToolUse("tu_2")>>],
     [stopReason |-> "tool_use", content |-> <<TextBlock>>],
     [stopReason |-> "stop_sequence", content |-> <<TextBlock>>]}

\* what executeTool can do: return a string, an object, an object with an
\* `error` key, or throw
ToolOutcomes ==
    {[ret |-> "string"], [ret |-> "object", keys |-> {"success"}],
     [ret |-> "object", keys |-> {"success", "error"}], [ret |-> "throw"]}

isErrorNever(outcome) == FALSE

\* isError of the try/catch around executeTool
isError(outcome) ==
    IF outcome.ret = "throw" THEN TRUE
    ELSE outcome.ret = "object" /\ "error" \in outcome.keys

toolResult(toolBlock, outcome) ==
    [type |-> "tool_result", tool_use_id |-> toolBlock.id,
     content |-> outcome, is_error |-> isError(outcome)]

toolUseBlocks(content) == SelectSeq(content, LAMBDA c : c.type = "tool_use")

UserText == [role |-> "user", content |-> <<TextBlock>>]

\* the messages runToolUseLoop is called with: the conversation so far
LoopMessages ==
    {<<UserText>>,
     <<UserText, [role |-> "assistant", content |-> <<TextBlock>>], UserText>>}

InitLoop ==
    /\ events = <<>>
    /\ undoLogs = <<>>
    /\ lastChangeSetId = NullChangeSet
    /\ uuidCount = 0
    /\ last = NoCall
    /\ prev = NoCall
    /\ undone = {}
    /\ NoPersona
    /\ NoGuard
    /\ callback = Null
    /\ messages \in LoopMessages
    /\ out = [op |-> "runToolUseLoop", messages |-> messages]
    /\ iteration = 0
    /\ pending = Null
    /\ toolResults = <<>>
    /\ loopResult = Null

\* provider.chat returns (or throws) and the loop runs up to its next await
ProviderChat ==
    /\ loopResult = Null
    /\ pending = Null
    /\ iteration < MAX_TOOL_ITERATIONS
    /\ iteration' = iteration + 1
    /\ \/ /\ loopResult' = Some([ret |-> "throw"])
          /\ UNCHANGED <<messages, pending, toolResults>>
       \/ \E response \in Responses :
             IF response.stopReason \in {"end_turn", "max_tokens"}
             THEN /\ loopResult' = Some([ret |-> "text"])
                  /\ UNCHANGED <<messages, pending, toolResults>>
             ELSE IF response.stopReason = "tool_use"
             THEN LET assistant == [role |-> "assistant", content |-> response.content]
                      blocks == toolUseBlocks(response.content)
                  IN  IF blocks = <<>>
                      THEN /\ messages' = messages \o
                                 <<assistant, [role |-> "user", content |-> <<>>]>>
                           /\ pending' = Null
                           /\ toolResults' = <<>>
                           /\ loopResult' =
                                 IF iteration' < MAX_TOOL_ITERATIONS THEN Null
                                 ELSE Some([ret |-> "lastText"])
                      ELSE /\ messages' = Append(messages, assistant)
                           /\ pending' = Some(blocks)
                           /\ toolResults' = <<>>
                           /\ loopResult' = Null
             ELSE /\ loopResult' = Some([ret |-> "lastText"])
                  /\ UNCHANGED <<messages, pending, toolResults>>
    /\ UNCHANGED <<events, undoLogs, lastChangeSetId, uuidCount, last, prev, undone,
                   out, personaVars, guardVars, callback>>

\* executeTool of the next block returns or throws; after the last block the
\* results are pushed and the loop goes on to the next provider call
ExecuteToolBlock ==
    /\ loopResult = Null
    /\ pending # Null
    /\ \E outcome \in ToolOutcomes :
          LET results == Append(toolResults, toolResult(Head(pending[1]), outcome))
          IN  /\ toolResults' = results
              /\ IF Len(pending[1]) > 1
                 THEN /\ pending' = Some(Tail(pending[1]))
                      /\ UNCHANGED <<messages, loopResult>>
                 ELSE /\ pending' = Null
                      /\ messages' = Append(messages,
                                            [role |-> "user", content |-> results])
                      /\ loopResult' =
                            IF iteration < MAX_TOOL_ITERATIONS THEN Null
                            ELSE Some([ret |-> "lastText"])
    /\ UNCHANGED <<events, undoLogs, lastChangeSetId, uuidCount, last, prev, undone,
                   out, personaVars, guardVars, callback, iteration>>

NextLoop ==
    \/ ProviderChat
    \/ ExecuteToolBlock

SpecLoop == InitLoop /\ [][NextLoop]_vars

\* ------------------------------------------------- GoogleCalendar (remote)
\* The remote calendar is the table `events`: event id -> event, read through
\* gcalToEvent; a deleted (cancelled) event is absent from it. Every request
\* either reaches the server or fails (`fault`), and apiFetch throws on a
\* response that is not ok; the server answers a request for an absent id
\* with an error status.
MaxRemoteIds == 2

\* POST /events: the server adds the event under an id of its own
gcalCreateEvent(remote, event, id, fault) ==
    IF fault THEN [threw |-> TRUE, remote |-> remote]
    ELSE [threw |-> FALSE, remote |-> (id :> [event EXCEPT !.id = id]) @@ remote]

\* GET /events/{eventId}
gcalGetEvent(remote, eventId, fault) ==
    IF fault \/ eventId \notin DOMAIN remote
    THEN [threw |-> TRUE, remote |-> remote]
    ELSE [threw |-> FALSE, remote |-> remote]

\* PATCH /events/{eventId}: the given fields replace the stored ones
\* (eventToGcal carries every field of the patch but `id`)
gcalUpdateEvent(remote, eventId, changes, fault) ==
    IF fault \/ eventId \notin DOMAIN remote
    THEN [threw |-> TRUE, remote |-> remote]
    ELSE LET fields == [k \in DOMAIN changes \ {"id"} |-> changes[k]]
         IN  [threw |-> FALSE,
              remote |-> [remote EXCEPT ![eventId] = fields @@ remote[eventId]]]

\* DELETE /events/{eventId}
gcalDeleteEvent(remote, eventId, fault) ==
    IF fault \/ eventId \notin DOMAIN remote
    THEN [threw |-> TRUE, remote |-> remote]
    ELSE [threw |-> FALSE,
          remote |-> [id \in DOMAIN remote \ {eventId} |-> remote[id]]]

RemoteCreateInputs == { [description |-> "d"] @@ makeEvent(NoId, "A") }

RemotePatches ==
    { [title |-> "C"],
      [start |-> At(0, 13, 0), end |-> At(0, 14, 0)] }

\* GoogleCalendar.lastChangeSetId: string | null = null
InitGoogle ==
    /\ events = <<>>
    /\ undoLogs = <<>>
    /\ lastChangeSetId = Null
    /\ uuidCount = 0
    /\ last = [NoCall EXCEPT !.lcs = Null, !.arg = Null, !.pre.lastChangeSetId = Null]
    /\ prev = last
    /\ undone = {}
    /\ out = [op |-> "none"]
    /\ NoPersona
    /\ NoHost

googleCreateEvent(event, fault) ==
    LET id == IdOrder[uuidCount + 1]
        created == gcalCreateEvent(events, event, id, fault)
    IN  /\ events' = created.remote
        /\ uuidCount' = IF created.threw THEN uuidCount ELSE uuidCount + 1
        /\ lastChangeSetId' = IF created.threw THEN lastChangeSetId ELSE Some(id)
        /\ prev' = last
        /\ last' = Call("createEvent", IF created.threw THEN NoId ELSE id, Null,
                        IF fault THEN 1 ELSE 0,
                        IF created.threw THEN "throw" ELSE "event", lastChangeSetId')
        /\ UNCHANGED <<undoLogs, undone, out, personaVars, hostVars>>

GoogleCreateEvent ==
    /\ uuidCount < MaxRemoteIds
    /\ \E event \in RemoteCreateInputs, fault \in BOOLEAN :
          googleCreateEvent(event, fault)

googleUpdateEvent(eventId, changes, getFault, fault) ==
    LET existing == gcalGetEvent(events, eventId, getFault)
        updated == gcalUpdateEvent(events, eventId, changes, fault)
        failed == existing.threw \/ updated.threw
    IN  /\ events' = IF failed THEN events ELSE updated.remote
        /\ lastChangeSetId' = IF failed THEN lastChangeSetId ELSE Some(eventId)
        /\ prev' = last
        /\ last' = Call("updateEvent", eventId, Null,
                        IF getFault THEN 1 ELSE IF fault THEN 2 ELSE 0,
                        IF failed THEN "undefined" ELSE "event", lastChangeSetId')
        /\ UNCHANGED <<undoLogs, uuidCount, undone, out, personaVars, hostVars>>

\* the ids the server has given so far, and the next one, not given yet
RemoteIds == {IdOrder[i] : i \in 1..(uuidCount + 1)}

GoogleUpdateEvent ==
    \E eventId \in RemoteIds, changes \in RemotePatches,
       getFault \in BOOLEAN, fault \in BOOLEAN :
        /\ ~(getFault /\ fault)
        /\ googleUpdateEvent(eventId, changes, getFault, fault)

googleDeleteEvent(eventId, fault) ==
    LET deleted == gcalDeleteEvent(events, eventId, fault)
    IN  /\ events' = deleted.remote
        /\ lastChangeSetId' = IF deleted.threw THEN lastChangeSetId ELSE Some(eventId)
        /\ prev' = last
        /\ last' = Call("deleteEvent", eventId, Null, IF fault THEN 1 ELSE 0,
                        IF deleted.threw THEN "false" ELSE "true", lastChangeSetId')
        /\ UNCHANGED <<undoLogs, uuidCount, undone, out, personaVars, hostVars>>

GoogleDeleteEvent ==
    \E eventId \in RemoteIds, fault \in BOOLEAN :
        googleDeleteEvent(eventId, fault)

\* undo_event: calendar.undo(args.change_set_id)
googleUndo(changeSetId, fault) ==
    LET deleted == gcalDeleteEvent(events, changeSetId[1], fault)
    IN  /\ events' = deleted.remote
        /\ prev' = last
        /\ last' = Call("undo", NoId, changeSetId, IF fault THEN 1 ELSE 0,
                        IF deleted.threw THEN "false" ELSE "true", lastChangeSetId)
        /\ UNCHANGED <<undoLogs, lastChangeSetId, uuidCount, undone, out, personaVars, hostVars>>

GoogleUndo ==
    \E changeSetId \in {Some(id) : id \in RemoteIds}, fault \in BOOLEAN :
        googleUndo(changeSetId, fault)

NextGoogle ==
    \/ GoogleCreateEvent
    \/ GoogleUpdateEvent
    \/ GoogleDeleteEvent
    \/ GoogleUndo

SpecGoogle == InitGoogle /\ [][NextGoogle]_vars

\* ------------------------------------------------------ claims on the store
IsMutation(c) == c.op \in {"create", "update", "delete"}

Applied(c) == c.ret \in {"event", "true"}

\* the last call was undo(lastChangeSetId) right after the call `prev`, and returned
UndoOfPrev == last.op = "undo" /\ last.arg = prev.lcs /\ last.ret = "true"

StoreUnchangedByLast ==
    /\ events = last.pre.events
    /\ undoLogs = last.pre.undoLogs
    /\ lastChangeSetId = last.pre.lastChangeSetId

\* C1: createEvent(E) then undo(lastChangeSetId) leaves the events table as it
\* was before the create, and deleteEvent(E.id) then undo(lastChangeSetId)
\* leaves it as it was before the delete (E back, every field the same).
\* The create or delete is one that applied, the undo one that returned.
C1_UndoInvertsCreateAndDelete ==
    (prev.op \in {"create", "delete"} /\ Applied(prev) /\ UndoOfPrev)
        => events = prev.pre.events

C1_Witness ==
    /\ prev.op = "delete" /\ Applied(prev) /\ UndoOfPrev
    /\ prev.id \in DOMAIN events
    /\ "description" \in DOMAIN events[prev.id]

\* C2: updateEvent(E.id, patch) then undo(lastChangeSetId) leaves the stored
\* event identical to E before the update and every other event untouched.
C2_UndoInvertsUpdate ==
    (prev.op = "update" /\ Applied(prev) /\ UndoOfPrev)
        => events = prev.pre.events

\* C3: updateEvent / deleteEvent on an unknown event id and undo on an unknown
\* changeset id return undefined / false / false and change neither table nor
\* lastChangeSetId.
C3_NonexistentTargetNoEffect ==
    /\ (last.op = "update" /\ last.id \notin DOMAIN last.pre.events)
           => (last.ret = "undefined" /\ StoreUnchangedByLast)
    /\ (last.op = "delete" /\ last.id \notin DOMAIN last.pre.events)
           => (last.ret = "false" /\ StoreUnchangedByLast)
    /\ (last.op = "undo"
          /\ \A i \in DOMAIN last.pre.undoLogs :
                 last.pre.undoLogs[i].changeSetId # last.arg)
           => (last.ret = "false" /\ StoreUnchangedByLast)

C3_Witness ==
    /\ last.op = "update" /\ last.ret = "undefined"
    /\ last.pre.events # <<>> /\ last.pre.undoLogs # <<>>
    /\ prev.op = "delete" /\ prev.ret = "false"

\* C4: a mutation that applied left exactly one new UndoLog row, with a
\* changeset id no other row has, next to its event-table change; a mutation
\* that did not apply (duplicate id, storage failure inside the transaction)
\* left neither an event-table change nor a row.
C4_MutationAtomicWithUndoLog ==
    /\ \A i, j \in DOMAIN undoLogs :
           i # j => undoLogs[i].changeSetId # undoLogs[j].changeSetId
    /\ IsMutation(last) =>
         IF Applied(last)
         THEN /\ Len(undoLogs) = Len(last.pre.undoLogs) + 1
              /\ SubSeq(undoLogs, 1, Len(last.pre.undoLogs)) = last.pre.undoLogs
              /\ undoLogs[Len(undoLogs)].changeSetId = lastChangeSetId
              /\ Len(undoLogs[Len(undoLogs)].snapshots) = 1
              /\ undoLogs[Len(undoLogs)].snapshots[1].event_id = last.id
              /\ undoLogs[Len(undoLogs)].snapshots[1].before =
                     (IF last.op = "create" THEN Null
                      ELSE Some(last.pre.events[last.id]))
              /\ (last.op = "create") =>
                     (last.id \notin DOMAIN last.pre.events /\ last.id \in DOMAIN events)
              /\ (last.op = "delete") =>
                     (last.id \in DOMAIN last.pre.events /\ last.id \notin DOMAIN events)
              /\ (last.op = "update") =>
                     (last.id \in DOMAIN last.pre.events /\ last.id \in DOMAIN events)
         ELSE events = last.pre.events /\ undoLogs = last.pre.undoLogs

C4_Witness ==
    /\ last.op = "create" /\ last.fault = 2 /\ last.ret = "throw"
    /\ last.id \notin DOMAIN last.pre.events
    /\ last.pre.undoLogs # <<>>


\* ---------------------------------------------------- claims on the queries
StoredEvents == {events[i] : i \in DOMAIN events}

Elements(seq) == {seq[i] : i \in DOMAIN seq}

\* C5: checkConflicts(start, end) returns exactly the stored events E with
\* E.start < end and E.end > start, each once: none is hidden by the fetch
\* window, and none that only touches the interval or lies outside is returned.
C5_CheckConflictsExact ==
    out.op = "checkConflicts" =>
        /\ Elements(out.result) =
              {e \in StoredEvents : /\ NewDate(e.start) < NewDate(out.end)
                                    /\ NewDate(e.end) > NewDate(out.start)}
        /\ Len(out.result) = Cardinality(Elements(out.result))

C5_Witness ==
    /\ out.op = "checkConflicts"
    /\ Len(out.result) = 1
    /\ NewDate(out.result[1].end) - NewDate(out.result[1].start) > 2 * MinutesPerDay
    /\ \E e \in StoredEvents : e.end = out.start

\* the window of the last getFreeSlots call, as Dates
SlotWindow ==
    LET range == IF out.timeRange = Null THEN DEFAULT_WORK_HOURS ELSE out.timeRange[1]
    IN  [start |-> out.date * MinutesPerDay + range[1][1] * 60 + range[1][2],
         end |-> out.date * MinutesPerDay + range[2][1] * 60 + range[2][2]]

\* no stored event E has E.start < b and E.end > a
EventFree(a, b) ==
    \A e \in StoredEvents : ~(NewDate(e.start) < b /\ NewDate(e.end) > a)

\* C6: every slot returned by getFreeSlots lies inside the window, is at least
\* duration minutes long and overlaps no stored event; the slots are pairwise
\* disjoint and in ascending start order.
C6_FreeSlotsSound ==
    (out.op = "getFreeSlots" /\ ~out.result.threw) =>
        LET slots == out.result.slots
        IN  /\ \A i \in DOMAIN slots :
                  /\ SlotWindow.start <= NewDate(slots[i].start)
                  /\ NewDate(slots[i].end) <= SlotWindow.end
                  /\ NewDate(slots[i].end) - NewDate(slots[i].start) >= out.durationMinutes
                  /\ EventFree(NewDate(slots[i].start), NewDate(slots[i].end))
            /\ \A i, j \in DOMAIN slots :
                  i < j => NewDate(slots[i].end) <= NewDate(slots[j].start)

\* the ends an event-free interval of the window can have
WindowPoints ==
    {t \in {SlotWindow.start, SlotWindow.end}
            \cup {NewDate(e.start) : e \in StoredEvents}
            \cup {NewDate(e.end) : e \in StoredEvents}
        : SlotWindow.start <= t /\ t <= SlotWindow.end}

MaximalFreeIntervals ==
    {p \in WindowPoints \X WindowPoints :
        /\ p[1] < p[2]
        /\ EventFree(p[1], p[2])
        /\ \A q \in WindowPoints \X WindowPoints :
              (q[1] <= p[1] /\ p[2] <= q[2] /\ q # p /\ q[1] < q[2])
                  => ~EventFree(q[1], q[2])}

\* C7: getFreeSlots returns every maximal event-free sub-interval of the
\* window that is at least duration minutes long, once, with its exact bounds.
C7_FreeSlotsComplete ==
    (out.op = "getFreeSlots" /\ ~out.result.threw) =>
        LET slots == out.result.slots
        IN  /\ {<<NewDate(slots[i].start), NewDate(slots[i].end)>> : i \in DOMAIN slots}
                 = {p \in MaximalFreeIntervals : p[2] - p[1] >= out.durationMinutes}
            /\ Len(slots) = Cardinality(Elements(slots))

\* the events of `evs`, in order, whose title contains the keyword, the
\* case of letters ignored
Matches(evs, titleKeyword) ==
    SelectSeq(evs, LAMBDA e : includes(stringToLowerCase(e.title),
                                       stringToLowerCase(titleKeyword)))

\* C22: findRelatedEvents(keyword, limit) returns, for every limit >= 0,
\* exactly the first min(limit, number of matches) events in store order
\* whose title contains the keyword case-insensitively: at most limit
\* events, and none whose title does not contain it.
C22_FirstMatchesUpToLimit ==
    out.op = "findRelatedEvents" =>
        LET matches == Matches(getAllEvents, out.titleKeyword)
        IN  out.result = SubSeq(matches, 1, Min(out.limit, Len(matches)))

\* --------------------------------------------- claims on the recommendations
\* C8: calculateTimeScore is in 10..100 with a persona, and one of
\* 50, 70, 80, 95, 100 with no persona (undefined or null).
C8_ScoreBounded ==
    out.op = "calculateTimeScore" =>
        IF out.persona.kind = "object"
        THEN out.result \in 10..100
        ELSE out.result \in {50, 70, 80, 95, 100}

C8_Witness ==
    /\ out.op = "calculateTimeScore"
    /\ out.persona.kind = "object"
    /\ out.persona.schedulingStyle = "conservative"
    /\ out.hour = 10
    /\ <<10, 0>> \in out.persona.preferredMeetingTimes
    /\ out.result = 100

\* the stored events E with E.start < newEnd and E.end > newStart
NewEventConflicts ==
    {e \in StoredEvents : /\ NewDate(e.start) < NewDate(out.newEvent.end)
                          /\ NewDate(e.end) > NewDate(out.newEvent.start)}

\* C9: with no stored event strictly overlapping [newStart, newEnd] the result
\* is one proposal, a 'create' of the new event, whatever the strategy, also
\* when events touch the interval at its ends.
C9_NoConflictCreates ==
    (out.op = "proposeScheduleAdjustment" /\ NewEventConflicts = {}) =>
        /\ Len(out.result) = 1
        /\ out.result[1].action = "create"
        /\ out.result[1].proposed[1].start = out.newEvent.start
        /\ out.result[1].proposed[1].end = out.newEvent.end

C9_Witness ==
    /\ out.op = "proposeScheduleAdjustment"
    /\ out.strategy = "other"
    /\ NewEventConflicts = {}
    /\ \E e \in StoredEvents : e.end = out.newEvent.start
    /\ \E e \in StoredEvents : e.start = out.newEvent.end
    /\ Len(out.result) = 1

\* C10: under minimize_moves with at least one conflict there is one entry per
\* conflicting event, in start order: 'move' to newEnd with the duration kept
\* for a movable event, 'conflict' with no proposed time for an immovable one;
\* a 'create' proposal comes first exactly when every entry is a 'move'.
C10_MinimizeMoves ==
    (out.op = "proposeScheduleAdjustment" /\ out.strategy = "minimize_moves"
        /\ NewEventConflicts # {}) =>
        LET allMove == \A e \in NewEventConflicts : e.is_movable
            entries == IF allMove THEN Tail(out.result) ELSE out.result
            newEnd == NewDate(out.newEvent.end)
        IN  /\ allMove => (out.result # <<>> /\ out.result[1].action = "create")
            /\ \A i \in DOMAIN entries : entries[i].action \in {"move", "conflict"}
            /\ Len(entries) = Cardinality(NewEventConflicts)
            /\ {entries[i].event_id[1] : i \in DOMAIN entries}
                  = {e.id : e \in NewEventConflicts}
            /\ \A i, j \in DOMAIN entries :
                  i < j => StrLE(entries[i].original.start, entries[j].original.start)
            /\ \A i \in DOMAIN entries :
                  LET e == events[entries[i].event_id[1]]
                  IN  /\ entries[i].original = [start |-> e.start, end |-> e.end]
                      /\ IF e.is_movable
                         THEN /\ entries[i].action = "move"
                              /\ NewDate(entries[i].proposed[1].start) = newEnd
                              /\ NewDate(entries[i].proposed[1].end)
                                    = newEnd + (NewDate(e.end) - NewDate(e.start))
                         ELSE /\ entries[i].action = "conflict"
                              /\ entries[i].proposed = Null

C10_Witness ==
    /\ out.op = "proposeScheduleAdjustment" /\ out.strategy = "minimize_moves"
    /\ Len(out.result) = 3
    /\ out.result[1].action = "create"
    /\ out.result[2].action = "move"
    /\ out.result[3].action = "move"
    /\ out.result[2].original.start # out.result[3].original.start

\* the priority the new event is given: its own, or 3
NewEventPriority ==
    IF "priority" \in DOMAIN out.newEvent THEN out.newEvent.priority ELSE 3

\* C11: under respect_priority a conflicting event gets 'move' exactly when it
\* is movable and its priority number is strictly greater than the new
\* event's (default 3); every other conflicting event gets 'conflict' with no
\* proposed time.
C11_RespectPriority ==
    (out.op = "proposeScheduleAdjustment" /\ out.strategy = "respect_priority"
        /\ NewEventConflicts # {}) =>
        /\ Len(out.result) = Cardinality(NewEventConflicts)
        /\ {out.result[i].event_id[1] : i \in DOMAIN out.result}
              = {e.id : e \in NewEventConflicts}
        /\ \A i \in DOMAIN out.result :
              LET e == events[out.result[i].event_id[1]]
              IN  IF e.is_movable /\ e.priority > NewEventPriority
                  THEN /\ out.result[i].action = "move"
                       /\ out.result[i].proposed # Null
                  ELSE /\ out.result[i].action = "conflict"
                       /\ out.result[i].proposed = Null

C11_Witness ==
    /\ out.op = "proposeScheduleAdjustment" /\ out.strategy = "respect_priority"
    /\ Len(out.result) = 2
    /\ NewEventPriority = 3
    /\ out.result[1].action = "move"
    /\ out.result[2].action = "conflict"
    /\ events[out.result[2].event_id[1]].is_movable
    /\ events[out.result[2].event_id[1]].priority = 3

\* C12: under keep_buffer with at least one conflict the result has the
\* entries of the minimize_moves result for the same request, with the same
\* actions in the same order (the leading 'create' included when every
\* conflict is movable); only a moved event's proposed start differs, being
\* newEnd + 15 minutes with the duration kept.
C12_KeepBufferLikeMinimizeMoves ==
    (out.op = "proposeScheduleAdjustment" /\ out.strategy = "keep_buffer"
        /\ NewEventConflicts # {}) =>
        LET minimized == proposeScheduleAdjustment(out.newEvent, "minimize_moves")
            newEnd == NewDate(out.newEvent.end)
        IN  /\ Len(out.result) = Len(minimized)
            /\ \A i \in DOMAIN out.result :
                  /\ out.result[i].action = minimized[i].action
                  /\ out.result[i].event_id = minimized[i].event_id
                  /\ IF out.result[i].action = "move"
                     THEN /\ out.result[i].original = minimized[i].original
                          /\ NewDate(out.result[i].proposed[1].start)
                                = newEnd + KeepBufferMinutes
                          /\ NewDate(out.result[i].proposed[1].end)
                                - NewDate(out.result[i].proposed[1].start)
                                = NewDate(out.result[i].original.end)
                                  - NewDate(out.result[i].original.start)
                     ELSE out.result[i].proposed = minimized[i].proposed

\* the intervals a proposal list leaves when applied: the new event's and
\* the proposed one of every moved event, by position in the list
AppliedIntervals(result) ==
    [i \in {j \in DOMAIN result : result[j].action \in {"create", "move"}} |->
        [start |-> NewDate(result[i].proposed[1].start),
         end |-> NewDate(result[i].proposed[1].end)]]

\* C29: a proposal list without a 'conflict' entry is free of conflicts when
\* applied: with the new event created and every event moved to its proposed
\* interval, no two of the new event and the moved events strictly overlap,
\* for every strategy and any number of conflicting events.
C29_AppliedProposalsDisjoint ==
    (/\ out.op = "proposeScheduleAdjustment"
     /\ \A i \in DOMAIN out.result : out.result[i].action # "conflict") =>
        LET placed == AppliedIntervals(out.result)
            new == [start |-> NewDate(out.newEvent.start),
                    end |-> NewDate(out.newEvent.end)]
        IN  /\ \A i, j \in DOMAIN placed :
                  i # j => ~(placed[i].start < placed[j].end
                             /\ placed[j].start < placed[i].end)
            /\ \A i \in DOMAIN placed :
                  out.result[i].action = "move"
                      => ~(placed[i].start < new.end /\ new.start < placed[i].end)

\* the snapshots the changeset `changeSetId` recorded
SnapshotsOf(logs, changeSetId) ==
    allSnapshots(SelectSeq(logs, LAMBDA l : l.changeSetId = changeSetId))

\* C23: undo(cs) directly followed by a second undo(cs), no mutation in
\* between, leaves the events table as the first undo(cs) left it, for a
\* changeset recorded by a create, an update or a delete.
C23_UndoTwiceIsIdempotent ==
    (/\ prev.op = "undo" /\ prev.ret = "true"
     /\ last.op = "undo" /\ last.arg = prev.arg)
        => events = last.pre.events

C23_Witness ==
    /\ prev.op = "undo" /\ prev.ret = "true"
    /\ last.op = "undo" /\ last.arg = prev.arg /\ last.ret = "true"
    /\ events # prev.pre.events
    /\ \E i \in DOMAIN SnapshotsOf(undoLogs, last.arg) :
          LET snapshot == SnapshotsOf(undoLogs, last.arg)[i]
          IN  /\ snapshot.before # Null
              /\ snapshot.event_id \in DOMAIN events
              /\ snapshot.event_id \notin DOMAIN prev.pre.events

\* the stored event carries every field of the snapshot `before`
Reinstated(snapshot) ==
    IF snapshot.before = Null THEN snapshot.event_id \notin DOMAIN events
    ELSE /\ snapshot.event_id \in DOMAIN events
         /\ \A k \in DOMAIN snapshot.before[1] :
               /\ k \in DOMAIN events[snapshot.event_id]
               /\ events[snapshot.event_id][k] = snapshot.before[1][k]

\* C26: undo does not consume the log of a changeset: every undo(cs) that
\* finds the log returns true and reinstates the snapshot cs recorded, also
\* when cs was undone before and the event was mutated since (the sequence
\* mutation cs, undo(cs), mutation of the same event, undo(cs) is the
\* witness); the later mutation's effect is discarded.
C26_UndoReplaysChangeset ==
    /\ last.op = "undo" =>
          /\ undoLogs = last.pre.undoLogs
          /\ last.ret = "true" =>
                \A i \in DOMAIN SnapshotsOf(undoLogs, last.arg) :
                    Reinstated(SnapshotsOf(undoLogs, last.arg)[i])
          /\ (last.fault = 0 /\ SnapshotsOf(undoLogs, last.arg) # <<>>)
                => last.ret = "true"
    /\ \A cs \in undone : SnapshotsOf(undoLogs, cs) # <<>>

C26_Witness ==
    /\ last.op = "undo" /\ last.ret = "true" /\ last.again
    /\ prev.op = "update" /\ Applied(prev)
    /\ prev.lcs # last.arg
    /\ \E i \in DOMAIN SnapshotsOf(undoLogs, last.arg) :
          /\ SnapshotsOf(undoLogs, last.arg)[i].event_id = prev.id
          /\ SnapshotsOf(undoLogs, last.arg)[i].before = Some(events[prev.id])
    /\ events # last.pre.events
    /\ prev.pre.events # last.pre.events

\* C19: every event of the store has start < end in every state that
\* create_event, update_event, delete_event and undo_event calls reach,
\* whatever start and end arguments they are given.
C19_StartBeforeEnd ==
    \A id \in DOMAIN events : NewDate(events[id].start) < NewDate(events[id].end)

\* ------------------------------------------------ claims on the service worker
\* C24: the processing guard admits one chat request at a time, whatever the
\* arrival order: at most one handleChatRequest runs the tool-use loop, and a
\* request that arrives while another is in flight (also one that has not yet
\* loaded settings and checked sign-in) is answered with STREAM_ERROR, pushes
\* nothing onto the conversation history and executes no tool.
C24_OneRequestAtATime ==
    /\ Cardinality({i \in DOMAIN requests : requests[i].pc = "loop"}) <= 1
    /\ \A i \in DOMAIN requests :
          requests[i].busy =>
              /\ requests[i].pc = "returned"
              /\ requests[i].reply = "STREAM_ERROR"
              /\ ~requests[i].pushed
              /\ ~requests[i].tool

\* ------------------------------------------------ claims on the tool-use loop
\* the user message answers the assistant message: one tool_result per
\* tool_use block, in block order, with the block's id, is_error set for a
\* tool that threw or returned an object with an `error` key
Answers(blocks, results) ==
    /\ Len(results) = Len(blocks)
    /\ \A i \in DOMAIN results :
          /\ results[i].type = "tool_result"
          /\ results[i].tool_use_id = blocks[i].id
          /\ results[i].is_error =
                (\/ results[i].content.ret = "throw"
                 \/ (results[i].content.ret = "object"
                     /\ "error" \in results[i].content.keys))

\* C25: every tool_use block is answered. Each assistant message the loop
\* appended (a response with stop reason tool_use) is followed, before the
\* next provider call, by one user message with exactly one tool_result per
\* tool_use block, in block order and with the matching tool_use_id; a tool
\* that throws or returns an object with an error key gives is_error = TRUE
\* and the loop goes on: while blocks remain, the results so far answer the
\* blocks executed and the loop has not returned or thrown.
C25_EveryToolUseAnswered ==
    out.op = "runToolUseLoop" =>
        \A i \in (Len(out.messages) + 1)..Len(messages) :
            messages[i].role = "assistant" =>
                LET blocks == toolUseBlocks(messages[i].content)
                IN  IF i = Len(messages)
                    THEN /\ pending # Null
                         /\ loopResult = Null
                         /\ Len(toolResults) + Len(pending[1]) = Len(blocks)
                         /\ Answers(SubSeq(blocks, 1, Len(toolResults)), toolResults)
                    ELSE /\ pending = Null \/ i + 1 < Len(messages)
                         /\ messages[i + 1].role = "user"
                         /\ Answers(blocks, messages[i + 1].content)

C25_Witness ==
    /\ out.op = "runToolUseLoop"
    /\ iteration = 3
    /\ loopResult = Some([ret |-> "text"])
    /\ \E i \in DOMAIN messages :
          /\ messages[i].role = "assistant"
          /\ Len(toolUseBlocks(messages[i].content)) = 2
          /\ messages[i + 1].content[1].tool_use_id = "tu_1"
          /\ messages[i + 1].content[1].content.ret = "throw"
          /\ messages[i + 1].content[1].is_error
          /\ messages[i + 1].content[2].tool_use_id = "tu_2"
          /\ ~messages[i + 1].content[2].is_error
          /\ i + 2 < Len(messages)

\* ------------------------------------------------ claims on the remote store
\* the last call is undo with the lastChangeSetId the call before it recorded
RemoteUndoOfPrev ==
    /\ last.op = "undo"
    /\ prev.ret \in {"event", "true"}
    /\ last.arg = prev.lcs

\* C18: with the GoogleCalendar backend, undo with the lastChangeSetId that
\* createEvent recorded deletes the created event, and undo with the
\* lastChangeSetId that updateEvent or deleteEvent recorded deletes no event
\* of the calendar and modifies none.
C18_RemoteUndoOnlyReversesCreation ==
    RemoteUndoOfPrev =>
        /\ (prev.op = "createEvent" /\ last.fault = 0)
              => (prev.id \notin DOMAIN events /\ events = prev.pre.events)
        /\ prev.op \in {"updateEvent", "deleteEvent"} => events = last.pre.events

\* ------------------------------------------------------ claims on suggestions
Suggested == out.op = "suggestOptimalTimes" /\ ~out.result.threw

\* the place of candidate k in a stable descending order by score: after
\* every candidate of greater score and every earlier one of its own score
ScoreRank(candidates, k) ==
    1 + Cardinality({m \in DOMAIN candidates :
                        \/ candidates[m].score > candidates[k].score
                        \/ (candidates[m].score = candidates[k].score /\ m < k)})

SuggestRange ==
    IF "time_range" \in DOMAIN out.constraints THEN out.constraints.time_range
    ELSE <<<<9, 0>>, <<18, 0>>>>

SuggestBuffer ==
    IF "buffer_minutes" \in DOMAIN out.constraints THEN out.constraints.buffer_minutes
    ELSE 0

SuggestAvoided ==
    IF "avoid_categories" \in DOMAIN out.constraints
    THEN out.constraints.avoid_categories ELSE {}

\* a returned candidate is durationMinutes long, lies in the time range of
\* its date, and overlaps no event of that range, not of an avoided
\* category, widened by the buffer at both ends
CandidateInGap(s) ==
    LET dayStart == s.date * MinutesPerDay + SuggestRange[1][1] * 60 + SuggestRange[1][2]
        dayEnd == s.date * MinutesPerDay + SuggestRange[2][1] * 60 + SuggestRange[2][2]
        from == NewDate(s.start)
        to == NewDate(s.end)
    IN  /\ to - from = out.durationMinutes
        /\ dayStart <= from
        /\ to <= dayEnd
        /\ \A id \in DOMAIN events :
              LET e == events[id]
              IN  (/\ e.category \notin SuggestAvoided
                   /\ StrLE(e.start, toLocalISO(dayEnd))
                   /\ StrLE(toLocalISO(dayStart), e.end))
                  => ~(/\ NewDate(e.start) - SuggestBuffer < to
                       /\ NewDate(e.end) + SuggestBuffer > from)

\* C17: suggestOptimalTimes returns the first 5 candidates of the stable
\* descending order by score: at most 5 entries, scores non-increasing, equal
\* scores in generation order, no omitted candidate scoring higher than a
\* returned one; every returned candidate is exactly durationMinutes long and
\* lies inside a gap of the buffered, category-filtered events of its date's
\* time range.
C17_TopCandidatesInStableOrder ==
    Suggested =>
        LET candidates == out.result.suggestions
            result == out.result.result
        IN  /\ Len(result) = Min(5, Len(candidates))
            /\ \A i, j \in DOMAIN result : i < j => result[i].score >= result[j].score
            /\ \A k \in DOMAIN candidates :
                  IF ScoreRank(candidates, k) <= 5
                  THEN result[ScoreRank(candidates, k)] = candidates[k]
                  ELSE \A i \in DOMAIN result : candidates[k].score <= result[i].score
            /\ \A i \in DOMAIN result : CandidateInGap(result[i])

\* six candidates over four dates: the two best come first although
\* generated later, the tied ones of dates 3 and 2 follow in the order of
\* preferredDates, and the tied candidate of date 4 is left out
C17_Witness ==
    /\ Suggested
    /\ out.preferredDates = <<3, 1, 2, 4>>
    /\ Len(out.result.suggestions) = 6
    /\ Len(out.result.result) = 5
    /\ out.result.result[1] # out.result.suggestions[1]
    /\ out.result.result[3].date = 3
    /\ out.result.result[5].date = 2
    /\ out.result.result[3].score = out.result.result[5].score
    /\ out.result.suggestions[6].date = 4
    /\ out.result.suggestions[6].score = out.result.result[5].score

\* ------------------------------------------------------ claims on the persona
DriftComputed == out.op = "detectDrift" /\ out.read # Null

RoutineOf(persona, keyword) ==
    CHOOSE i \in DOMAIN persona.routines : persona.routines[i].keyword = keyword

\* C13: a routine's typical times are overwritten by drift detection at
\* exactly its 3rd drifting observation since its last adoption (or since the
\* analysis), never at the 1st or 2nd and never later, whatever updatePersona
\* calls come in between; at adoption its drift note is removed.
C13_AdoptionAtThirdObservation ==
    DriftComputed =>
        \A k \in out.seen :
            /\ (k \in out.adopted) <=> (out.ordinal[k] = DRIFT_ADOPT_COUNT)
            /\ (k \in out.adopted) => findDriftNote(out.result.notes, k) = 0
            /\ (k \notin out.adopted) =>
                  LET i == RoutineOf(out.result, k)
                  IN  /\ out.result.routines[i].typicalStart
                            = out.read[1].routines[i].typicalStart
                      /\ out.result.routines[i].typicalEnd
                            = out.read[1].routines[i].typicalEnd

\* C14: a detectDrift invocation leaves every routine's confidence at least
\* what it read and at most 1; the confidence changes, by +0.1 capped at 1,
\* only for a routine the invocation adopts.
C14_ConfidenceNeverLowered ==
    DriftComputed =>
        /\ Len(out.result.routines) = Len(out.read[1].routines)
        /\ \A i \in DOMAIN out.result.routines :
              LET before == out.read[1].routines[i].confidence
                  after == out.result.routines[i].confidence
              IN  /\ after >= before
                  /\ after <= 100
                  /\ IF out.result.routines[i].keyword \in out.adopted
                     THEN after = (IF before + 10 > 100 THEN 100 ELSE before + 10)
                     ELSE after = before

C14_Witness ==
    /\ DriftComputed
    /\ "standup" \in out.adopted
    /\ out.read[1].routines[RoutineOf(out.read[1], "standup")].confidence = 95
    /\ out.result.routines[RoutineOf(out.result, "standup")].confidence = 100

IsDrift(c) == calls[c].kind = "detectDrift"

\* the routines and the count of each routine's drift note
DriftState(persona) ==
    [routines |-> persona.routines,
     counts |-> [k \in Keywords |->
                    IF findDriftNote(persona.notes, k) = 0 THEN 0
                    ELSE persona.notes[findDriftNote(persona.notes, k)].count]]

\* C15: a detectDrift invocation reads the persona only after every
\* invocation called before it has finished (so at most one is between its
\* read and its write, and the cycles run in call order), and overlapping
\* invocations leave the routines and note counts that the same invocations
\* leave when run one after another.
C15_DriftSerialized ==
    /\ \A c, d \in DOMAIN calls :
          (IsDrift(c) /\ IsDrift(d) /\ d < c /\ calls[c].pc # "awaitLock")
              => calls[d].pc = "done"
    /\ Cardinality({c \in DOMAIN calls : IsDrift(c) /\ calls[c].pc = "setPersona"}) <= 1
    /\ (serialPersona # Null /\ \A c \in DOMAIN calls : calls[c].pc = "done")
          => DriftState(userPersona[1]) = DriftState(serialPersona[1])

C15_Witness ==
    /\ Len(calls) = 3
    /\ \A c \in DOMAIN calls : IsDrift(c)
    /\ calls[1].pc = "done"
    /\ calls[2].pc = "setPersona"
    /\ calls[3].pc = "awaitLock"
    /\ DriftState(calls[2].persona).counts = [lunch |-> 2, standup |-> 2]

\* the notes a call read, without the drift notes it adopted
NotesRead ==
    SelectSeq(out.read[1].notes, LAMBDA n :
        ~(n.type = "drift" /\ out.op = "detectDrift" /\ n.relatedRoutine \in out.adopted))

\* the number of notes a call appended
NotesPushed ==
    IF out.op = "updatePersona" THEN 1
    ELSE Cardinality({k \in out.seen : findDriftNote(out.read[1].notes, k) = 0})

NoteKey(n) ==
    IF n.type = "drift" THEN <<"drift", n.relatedRoutine>>
    ELSE <<"explicit", n.createdAt, n.content>>

\* `written` is the last MAX_NOTES notes of `read` followed by `pushed` notes
\* stamped `now`: what is dropped is the front of `read`, what is kept
\* stays in order, the pushed notes come last
KeepsLastNotes(read, written, pushed, now) ==
    LET dropped == Len(read) + pushed - Len(written)
        kept == Len(written) - pushed
    IN  /\ Len(written) <= MAX_NOTES
        /\ dropped >= 0
        /\ dropped > 0 => Len(written) = MAX_NOTES
        /\ kept >= 0
        /\ \A j \in 1..kept : NoteKey(written[j]) = NoteKey(read[j + dropped])
        /\ \A j \in (kept + 1)..Len(written) :
              /\ written[j].createdAt = now
              /\ written[j].count = 1

\* C16: the stored persona never has more than 50 notes, and a call that
\* would leave more keeps the last 50 of the list: the notes it drops are the
\* ones at the front, the kept ones stay in order, the note appended last is
\* kept.
C16_NotesCapped ==
    /\ userPersona # Null => Len(userPersona[1].notes) <= MAX_NOTES
    /\ ((out.op = "updatePersona" /\ out.ret = "persona") \/ DriftComputed) =>
          KeepsLastNotes(NotesRead, out.result.notes, NotesPushed,
                         out.result.updatedAt)

C16_Witness ==
    /\ DriftComputed
    /\ Len(out.read[1].notes) = MAX_NOTES
    /\ out.seen = {"lunch", "standup"}
    /\ Len(out.result.notes) = MAX_NOTES
    /\ out.result.notes[1] = out.read[1].notes[2]
    /\ out.result.notes[MAX_NOTES].type = "drift"

PersonaFields ==
    {"version", "createdAt", "activeHours", "routines", "schedulingStyle",
     "preferredMeetingTimes", "avgDailyEvents", "bufferPreference"}

\* an updatePersona that returned changed, of the persona it read, only the
\* patched fields, updatedAt and the notes, to which it appended one
\* 'explicit' note holding the reason (the list then capped as in C16)
UpdateChangesOnlyPatched ==
    (out.op = "updatePersona" /\ out.ret = "persona") =>
        LET read == out.read[1]
            result == out.result
            patch == IF "activeHours" \in DOMAIN out.changes
                     THEN out.changes.activeHours ELSE <<>>
        IN  /\ DOMAIN result = DOMAIN read
            /\ \A f \in PersonaFields \ DOMAIN out.changes : result[f] = read[f]
            /\ \A f \in (DOMAIN out.changes) \ {"activeHours"} :
                  result[f] = out.changes[f]
            /\ DOMAIN result.activeHours = DOMAIN read.activeHours
            /\ \A f \in DOMAIN read.activeHours :
                  result.activeHours[f]
                     = (IF f \in DOMAIN patch THEN patch[f] ELSE read.activeHours[f])
            /\ Len(result.notes) = Min(MAX_NOTES, Len(read.notes) + 1)
            /\ LET newest == result.notes[Len(result.notes)]
               IN  /\ newest.type = "explicit"
                   /\ newest.content = out.reason
                   /\ newest.count = 1
            /\ \A j \in 1..(Len(result.notes) - 1) :
                  result.notes[j]
                     = read.notes[j + Len(read.notes) + 1 - Len(result.notes)]

\* without a persona updatePersona throws and detectDrift returns, neither
\* with a write to come
NoPersonaNoWrite ==
    /\ (out.op = "updatePersona" /\ out.read = Null) => out.ret = "throw"
    /\ (out.op = "detectDrift" /\ out.read = Null) => calls[out.id].pc = "done"
    /\ userPersona = Null => \A c \in DOMAIN calls : calls[c].pc # "setPersona"

\* C20: while no persona is stored, updatePersona throws and detectDrift
\* returns, writing nothing, so that only analyzeUserPatterns makes the store
\* non-null; with a persona, an updatePersona that returns changes only the
\* patched fields and updatedAt and appends one 'explicit' note whose content
\* is the reason.
C20_OnlyAnalysisCreatesPersona ==
    /\ [](NoPersonaNoWrite /\ UpdateChangesOnlyPatched)
    /\ [][(userPersona = Null /\ userPersona' # Null)
             => (out'.op = "analyzeUserPatterns" /\ out'.ret = "persona")]_vars

C20_Witness ==
    /\ userPersona = Null
    /\ Len(calls) = 3
    /\ calls[1] = Done("detectDrift")
    /\ calls[2] = Done("analyzeUserPatterns")
    /\ out.op = "updatePersona" /\ out.ret = "throw"

\* C28: no persona write is lost between detectDrift and updatePersona or
\* analyzeUserPatterns: whenever a call stores its persona, the persona it
\* read and patched is still the stored one, so that the store then holds
\* the note and fields of every call that wrote before it; this in every
\* interleaving of the calls.
\* C21: drift detection is best-effort. The result of a create_event or
\* update_event call that the callback hands back to the loop is the result
\* of the tool, whether the detectDrift it started has since succeeded, thrown
\* or is still waiting for the lock; it is never turned into an error.
C21_ToolResultHandedBack ==
    IF callback = Null THEN TRUE
    ELSE callback[1].pc = "returned" => callback[1].result = toolResultOf(last)

C21_Witness ==
    /\ callback # Null
    /\ callback[1].pc = "returned"
    /\ callback[1].result.success
    /\ callback[1].drift = 2
    /\ calls[1].kind = "detectDrift"
    /\ "threw" \in DOMAIN calls[1]
    /\ calls[2].pc = "done"
    /\ "threw" \in DOMAIN calls[2]

\* C30: a drift observation is recorded only for a mutation that happened:
\* the callback calls detectDrift only when the create_event or update_event
\* call it made succeeded; for a result {success: false} it calls none.
C30_DriftOnlyAfterSuccess ==
    IF callback = Null THEN TRUE
    ELSE (callback[1].pc = "returned" /\ ~callback[1].result.success)
            => callback[1].drift = 0

\* C27: the drift lock is always released. Provided every persona-store call
\* eventually returns or throws, every detectDrift invocation eventually gets
\* past `await prev` and completes, also when an invocation queued before it
\* threw inside detectDriftInner.
C27_EveryDriftCallCompletes ==
    \A id \in 1..(MaxCalls + 1) :
        (id \in DOMAIN calls)
            ~> (IF id \in DOMAIN calls THEN calls[id].pc = "done" ELSE FALSE)

C27_Witness ==
    /\ Len(calls) >= 2
    /\ calls[1].pc = "done"
    /\ "threw" \in DOMAIN calls[1]
    /\ calls[2].pc = "done"
    /\ "threw" \notin DOMAIN calls[2]
    /\ out.op = "detectDrift"
    /\ out.id = 2
    /\ out.changed
    /\ userPersona = Some(out.result)

C28_NoPersonaWriteLost ==
    [][\A id \in DOMAIN calls :
          (calls[id].pc = "setPersona" /\ calls'[id].pc = "done")
              => calls[id].read = userPersona]_vars

Next ==
    \/ CreateEvent
    \/ UpdateEvent
    \/ DeleteEvent
    \/ Undo

Spec == Init /\ [][Next]_vars
====
